---------------------------- MODULE Spec2Model ----------------------------
(***************************************************************************)
(* Offline-resilient write path of fastygo/backend: the BoltDB buffer      *)
(* store, the connection monitor, the buffer processor (drain scheduler    *)
(* and BufferOperation), the buffer bridge, the profile/task use cases and *)
(* the Postgres repositories they apply to.                                *)
(*                                                                         *)
(* Strings that the code compares byte-wise (bucket keys) are sequences of *)
(* byte values; everything else that is only compared for equality is a    *)
(* TLA+ string.                                                            *)
(***************************************************************************)
EXTENDS Integers, Sequences, FiniteSets, TLC

VARIABLES
    store,      \* the bolt bucket: a set of [k |-> key bytes, v |-> stored value]
    now,        \* the process clock read by time.Now()
    dbNow,      \* the database clock read by SQL NOW()
    out,        \* the last batch read (SpecStore); the record applied and the tables it left (SpecApply)
    status,     \* Monitor.status, the last Health Snapshot
    users,      \* table users: the rows, by id
    tasks,      \* table tasks: the rows, by id
    tick,       \* the cron job goroutines running Drain: slot -> frame
    resp,       \* what the last use-case / BufferOperation call returned
    hist,       \* history: accepted records, terminal transitions, apply counts
    life,       \* main and the lifecycle Manager: position, hooks, the run of Shutdown
    mon         \* the Monitor's loop goroutine and its stop channel

vars == <<store, now, dbNow, out, status, users, tasks, tick, resp, hist, life, mon>>

\* main and the Manager where the process around the service is not looked at
NoLife == [pc |-> "serving"]

\* the Monitor's goroutine where its probe rounds are taken as single steps
NoMon == [pc |-> "looping"]

(***************************************************************************)
(* Bounds of the model.                                                    *)
(***************************************************************************)
\* first clock value; 9 so that the clock crosses a decimal digit boundary
T0 == 9
\* number of clock advances explored
TimeSpan == 1
\* Enqueue calls explored by the store-level specification
MaxEnq == 3
\* cron firings explored
MaxFires == 3
\* use-case / BufferOperation calls explored
MaxReq == 1
\* store operations of the drain that may fail with an I/O error
MaxFaults == 1
\* cron job goroutines that can exist at once
MaxInFlight == 2
\* ProcessorConfig.BatchSize used by the drain (main passes 50)
BatchSize == 2
\* probe rounds of the Monitor followed field by field
MaxRounds == 2

MaxTime == T0 + TimeSpan

(***************************************************************************)
(* Program constants.                                                      *)
(***************************************************************************)
\* cfg.MaxRetries default
MaxRetries == 3
\* GetBatch's default limit
DefaultLimit == 50
\* width of the timestamp in a bucket key: %020d
TsWidth == 20
\* Item.normalize: default priority
DefaultPriority == 3
\* Item.normalize: largest accepted priority
MaxPriority == 5

(***************************************************************************)
(* Bytes and strings.                                                      *)
(***************************************************************************)
Min(a, b) == IF a <= b THEN a ELSE b

\* ASCII code of the decimal digit d
DigitByte(d) == 48 + d

\* ASCII '_'
Underscore == 95

\* strconv-style decimal rendering of a natural number, most significant first
RECURSIVE Decimal(_)
Decimal(n) == IF n < 10 THEN <<DigitByte(n)>>
              ELSE Decimal(n \div 10) \o <<DigitByte(n % 10)>>

\* w copies of the byte b
RECURSIVE Repeat(_, _)
Repeat(b, w) == IF w <= 0 THEN <<>> ELSE <<b>> \o Repeat(b, w - 1)

\* fmt's %0<w>d for n >= 0: zero-padded on the left to at least w bytes
ZeroPad(n, w) == LET d == Decimal(n) IN Repeat(DigitByte(0), w - Len(d)) \o d

\* bytes.Compare(a, b) < 0, the order of a bolt cursor
BytesLess(a, b) ==
    \E i \in 1..(Min(Len(a), Len(b)) + 1) :
        /\ \A j \in 1..(i - 1) : a[j] = b[j]
        /\ \/ i <= Len(a) /\ i <= Len(b) /\ a[i] < b[i]
           \/ i = Len(a) + 1 /\ i <= Len(b)

\* task ids as they arrive in requests ("t1")
TaskIds == {<<116, 49>>}
\* the X-User-ID of the requests ("u1")
UserIds == {<<117, 49>>}
\* the n-th value returned by uuid.NewString(): distinct from every other id
NewUUID(n) == <<102, DigitByte(n)>>


(***************************************************************************)
(* buffer.Item and its JSON form.                                          *)
(***************************************************************************)
EntityProfile == "profile"
EntityTask == "task"
OperationCreate == "create"
OperationUpdate == "update"
OperationDelete == "delete"

\* a bucket value that json.Unmarshal rejects
Corrupt == [corrupt |-> TRUE]

\* the zero time.Time
ZeroTime == 0
IsZero(t) == t = ZeroTime

\* the empty string / nil byte slice
Empty == <<>>

\* buffer.Item as a caller builds it. gid is a history tag that follows one
\* accepted record through its reinsertions; no code reads it.
NewItem(id, entity, operation, data, priority) ==
    [ID |-> id, Entity |-> entity, Operation |-> operation, Data |-> data,
     Priority |-> priority, Retries |-> 0, Timestamp |-> ZeroTime,
     bucketKey |-> Empty, gid |-> 0]

\* a plausible slip: the priority is kept as the caller gave it
normalizeKeepsPriority(item, uuid, t) ==
    [item EXCEPT
        !.ID = IF item.ID = Empty THEN uuid ELSE item.ID,
        !.Timestamp = IF IsZero(item.Timestamp) THEN t ELSE item.Timestamp]

\* Item.normalize with uuid the next uuid.NewString() and t the next time.Now()
normalize(item, uuid, t) ==
    [item EXCEPT
        !.ID = IF item.ID = Empty THEN uuid ELSE item.ID,
        !.Priority = IF item.Priority <= 0 \/ item.Priority > MaxPriority
                     THEN DefaultPriority ELSE item.Priority,
        !.Timestamp = IF IsZero(item.Timestamp) THEN t ELSE item.Timestamp]

\* a plausible slip: the key is built without zero padding (%d instead of %020d)
buildKeyUnpadded(item) ==
    Decimal(item.Priority) \o <<Underscore>> \o Decimal(item.Timestamp)
        \o <<Underscore>> \o item.ID

\* a plausible slip: the timestamp is put in front of the priority
buildKeyTimeFirst(item) ==
    ZeroPad(item.Timestamp, TsWidth) \o <<Underscore>> \o Decimal(item.Priority)
        \o <<Underscore>> \o item.ID

\* fmt.Sprintf("%d_%020d_%s", item.Priority, item.Timestamp.UnixNano(), item.ID)
buildKey(item) ==
    Decimal(item.Priority) \o <<Underscore>> \o ZeroPad(item.Timestamp, TsWidth)
        \o <<Underscore>> \o item.ID

\* json.Marshal(item): the exported fields; bucketKey is unexported and is dropped
Marshal(item) ==
    [ID |-> item.ID, Entity |-> item.Entity, Operation |-> item.Operation,
     Data |-> item.Data, Priority |-> item.Priority, Retries |-> item.Retries,
     Timestamp |-> item.Timestamp, gid |-> item.gid]

\* json.Unmarshal(v, &item) succeeded
Decodes(v) == "ID" \in DOMAIN v

\* the item json.Unmarshal(v, &item) leaves, for a value that decodes
Unmarshal(v) ==
    [ID |-> v.ID, Entity |-> v.Entity, Operation |-> v.Operation,
     Data |-> v.Data, Priority |-> v.Priority, Retries |-> v.Retries,
     Timestamp |-> v.Timestamp, bucketKey |-> Empty, gid |-> v.gid]

(***************************************************************************)
(* buffer.Store over a bolt bucket. Each operator is the effect of the     *)
(* call when its bolt transaction commits; the actions decide whether it   *)
(* commits.                                                                *)
(***************************************************************************)
\* Bucket.Put: insert or overwrite the value under key k
Put(s, k, v) == {e \in s : e.k # k} \cup {[k |-> k, v |-> v]}

\* Bucket.Delete: deleting a missing key is not an error
Delete(s, k) == {e \in s : e.k # k}

\* the keys of the bucket in cursor (byte-wise ascending) order
RECURSIVE CursorOrder(_)
CursorOrder(ks) ==
    IF ks = {} THEN <<>>
    ELSE LET k == CHOOSE x \in ks : \A y \in ks \ {x} : BytesLess(x, y)
         IN <<k>> \o CursorOrder(ks \ {k})

Keys(s) == {e.k : e \in s}
ValueAt(s, k) == (CHOOSE e \in s : e.k = k).v

\* Store.Enqueue
Enqueue(s, item, uuid, t) ==
    LET it == normalize(item, uuid, t)
        key == buildKey(it)
    IN Put(s, key, Marshal(it))

\* a plausible slip: the loop ends at an entry that does not decode (break for continue)
RECURSIVE ScanStopsAtCorrupt(_, _, _, _, _)
ScanStopsAtCorrupt(s, ks, i, items, limit) ==
    IF i > Len(ks) \/ Len(items) >= limit THEN items
    ELSE LET v == ValueAt(s, ks[i])
         IN IF ~Decodes(v) THEN items
            ELSE ScanStopsAtCorrupt(s, ks, i + 1,
                      Append(items, [Unmarshal(v) EXCEPT !.bucketKey = ks[i]]),
                      limit)

\* GetBatch's cursor loop from position i of the ordered keys
RECURSIVE Scan(_, _, _, _, _)
Scan(s, ks, i, items, limit) ==
    IF i > Len(ks) \/ Len(items) >= limit THEN items
    ELSE LET v == ValueAt(s, ks[i])
         IN IF ~Decodes(v) THEN Scan(s, ks, i + 1, items, limit)
            ELSE Scan(s, ks, i + 1,
                      Append(items, [Unmarshal(v) EXCEPT !.bucketKey = ks[i]]),
                      limit)

\* a plausible slip: the limit is used as given, without the default
GetBatchNoDefault(s, limit) ==
    Scan(s, CursorOrder(Keys(s)), 1, <<>>, limit)

\* Store.GetBatch
GetBatch(s, limit) ==
    Scan(s, CursorOrder(Keys(s)), 1, <<>>,
         IF limit <= 0 THEN DefaultLimit ELSE limit)

\* a plausible slip: every entry of this id is deleted, not the first only
deleteByIDAll(s, id) ==
    {e \in s : ~(Decodes(e.v) /\ e.v.ID = id)}

\* Store.deleteByID: the first entry in cursor order that decodes and has this id
deleteByID(s, id) ==
    IF id = Empty THEN s
    ELSE LET ks == CursorOrder(Keys(s))
             hit == {i \in 1..Len(ks) :
                        /\ Decodes(ValueAt(s, ks[i]))
                        /\ ValueAt(s, ks[i]).ID = id}
         IN IF hit = {} THEN s
            ELSE Delete(s, ks[CHOOSE i \in hit : \A j \in hit : i <= j])

\* Store.Remove
Remove(s, item) ==
    IF Len(item.bucketKey) = 0 THEN deleteByID(s, item.ID)
    ELSE Delete(s, item.bucketKey)

\* Store.Requeue
Requeue(s, item, uuid, t) ==
    Enqueue(s, [item EXCEPT !.bucketKey = Empty, !.Timestamp = t], uuid, t)

\* Store.Size
Size(s) == Cardinality(s)

\* a plausible slip: an item of exactly the given time is removed too (!After for Before)
CleanupInclusive(s, olderThan) ==
    {e \in s : ~Decodes(e.v) \/ ~(e.v.Timestamp <= olderThan)}

\* Store.Cleanup
Cleanup(s, olderThan) ==
    {e \in s : ~Decodes(e.v) \/ ~(e.v.Timestamp < olderThan)}


(***************************************************************************)
(* Domain objects, their JSON payloads and the Postgres repositories.      *)
(* val stands for the columns a request sets (title, status, role, ...).   *)
(***************************************************************************)
Vals == {"a", "b"}
\* the values the requests of the service-level specification carry
ReqVals == {"a"}

\* a table is a function from the ids that have a row to their rows
EmptyTable == [i \in {} |-> TRUE]
HasRow(tbl, id) == id \in DOMAIN tbl
WithRow(tbl, id, row) == [i \in DOMAIN tbl \cup {id} |-> IF i = id THEN row ELSE tbl[i]]
WithoutRow(tbl, id) == [i \in DOMAIN tbl \ {id} |-> tbl[i]]

\* error values; Nil is Go's nil error
Nil == "nil"
ErrTaskNotFound == "task not found"
ErrInvalidPayload == "invalid payload"
ErrUnavailable == "unavailable"
ErrConflict == "duplicate key"
ErrUnmarshal == "unmarshal"
ErrUnsupported == "unsupported"
ErrStore == "bolt"

\* domain.Task / domain.User as a handler builds them
Task(id, val) == [ID |-> id, val |-> val]
User(id, val) == [ID |-> id, val |-> val, CreatedAt |-> ZeroTime]

\* a payload that is valid JSON but does not decode into domain.User/Task
PoisonData == [poison |-> TRUE]

\* json.Marshal(task) / json.Marshal(user)
MarshalTask(task) == [id |-> task.ID, val |-> task.val]
MarshalUser(user) == [id |-> user.ID, val |-> user.val, created_at |-> user.CreatedAt]

\* json.Unmarshal(item.Data, &task) / (item.Data, &user) succeeded
DecodesObject(data) == "id" \in DOMAIN data

\* the object json.Unmarshal leaves; a field missing in the JSON keeps its zero value
UnmarshalTask(data) == [ID |-> data.id, val |-> data.val]
UnmarshalUser(data) ==
    [ID |-> data.id, val |-> data.val,
     CreatedAt |-> IF "created_at" \in DOMAIN data THEN data.created_at ELSE ZeroTime]

\* a plausible slip: the conflict branch also rewrites created_at
UpsertResetsCreated(us, user, up, t) ==
    IF ~up THEN [err |-> ErrUnavailable, tbl |-> us]
    ELSE [err |-> Nil,
          tbl |-> WithRow(us, user.ID,
                     [val |-> user.val, created_at |-> t, updated_at |-> t])]

\* userRepository.Upsert: INSERT ... ON CONFLICT (id) DO UPDATE
Upsert(us, user, up, t) ==
    IF ~up THEN [err |-> ErrUnavailable, tbl |-> us]
    ELSE IF HasRow(us, user.ID)
    THEN [err |-> Nil,
          tbl |-> WithRow(us, user.ID,
                     [val |-> user.val, created_at |-> us[user.ID].created_at,
                      updated_at |-> t])]
    ELSE [err |-> Nil,
          tbl |-> WithRow(us, user.ID,
                     [val |-> user.val,
                      created_at |-> IF IsZero(user.CreatedAt) THEN t ELSE user.CreatedAt,
                      updated_at |-> t])]

\* taskRepository.Create: sets a missing id, then a plain INSERT; id is the
\* primary key of tasks. task is the object the caller's pointer holds afterwards.
Create(ts, task, uuid, up, t) ==
    LET tk == [task EXCEPT !.ID = IF task.ID = Empty THEN uuid ELSE task.ID]
    IN IF ~up THEN [err |-> ErrUnavailable, tbl |-> ts, task |-> tk]
       ELSE IF HasRow(ts, tk.ID) THEN [err |-> ErrConflict, tbl |-> ts, task |-> tk]
       ELSE [err |-> Nil, task |-> tk,
             tbl |-> WithRow(ts, tk.ID,
                        [val |-> tk.val, created_at |-> t, updated_at |-> t])]

\* taskRepository.Update: UPDATE ... WHERE id = $1 RETURNING updated_at
Update(ts, task, up, t) ==
    IF ~up THEN [err |-> ErrUnavailable, tbl |-> ts]
    ELSE IF ~HasRow(ts, task.ID) THEN [err |-> ErrTaskNotFound, tbl |-> ts]
    ELSE [err |-> Nil,
          tbl |-> WithRow(ts, task.ID,
                     [val |-> task.val, created_at |-> ts[task.ID].created_at,
                      updated_at |-> t])]

\* taskRepository.Delete: DELETE ... WHERE id = $1, not found when no row was affected
DeleteRow(ts, id, up) ==
    IF ~up THEN [err |-> ErrUnavailable, tbl |-> ts]
    ELSE IF ~HasRow(ts, id) THEN [err |-> ErrTaskNotFound, tbl |-> ts]
    ELSE [err |-> Nil, tbl |-> WithoutRow(ts, id)]

\* BufferProcessor.processItem against tables us, ts with Postgres up or down at
\* time t; uuid is the next uuid.NewString(). call tells whether a repository
\* method was invoked.
processItem(item, us, ts, uuid, up, t) ==
    IF item.Entity = EntityProfile
    THEN IF ~DecodesObject(item.Data)
         THEN [err |-> ErrUnmarshal, users |-> us, tasks |-> ts, call |-> FALSE]
         ELSE LET r == Upsert(us, UnmarshalUser(item.Data), up, t)
              IN [err |-> r.err, users |-> r.tbl, tasks |-> ts, call |-> TRUE]
    ELSE IF item.Entity = EntityTask
    THEN IF ~DecodesObject(item.Data)
         THEN [err |-> ErrUnmarshal, users |-> us, tasks |-> ts, call |-> FALSE]
         ELSE LET task == UnmarshalTask(item.Data)
                  c == Create(ts, task, uuid, up, t)
                  r == CASE item.Operation = OperationCreate ->
                                [err |-> c.err, tbl |-> c.tbl]
                         [] item.Operation = OperationUpdate -> Update(ts, task, up, t)
                         [] item.Operation = OperationDelete -> DeleteRow(ts, task.ID, up)
                         [] OTHER -> [err |-> ErrUnsupported, tbl |-> ts]
              IN [err |-> r.err, users |-> us, tasks |-> r.tbl,
                  call |-> item.Operation \in
                              {OperationCreate, OperationUpdate, OperationDelete}]
    ELSE [err |-> ErrUnsupported, users |-> us, tasks |-> ts, call |-> FALSE]

(***************************************************************************)
(* The connection monitor.                                                 *)
(***************************************************************************)
\* a plausible slip: the Redis flag is left out of IsOnline
IsOnlinePostgresOnly(st) == st.PostgreSQL

\* Monitor.IsOnline over a snapshot
IsOnline(st) == st.PostgreSQL /\ st.Redis

\* Monitor.GetStatus: a copy of the snapshot, read under the same lock
GetStatus(st) == st

\* a plausible slip: the Monitor is constructed reporting everything up
ZeroStatusOnline == [PostgreSQL |-> TRUE, Redis |-> TRUE, Buffer |-> TRUE, BufferSize |-> 0]

\* the zero Status the Monitor is constructed with
ZeroStatus == [PostgreSQL |-> FALSE, Redis |-> FALSE, Buffer |-> FALSE, BufferSize |-> 0]


(***************************************************************************)
(* State of the running service.                                           *)
(***************************************************************************)
NoItem == [none |-> TRUE]
ZeroVal == ""

\* a cron slot with no Drain running in it
IdleFrame == [pc |-> "idle", items |-> <<>>, i |-> 0, cur |-> NoItem]
Slots == 1..MaxInFlight
InFlight == {t \in Slots : tick[t].pc # "idle"}

\* the object of a call that carries none
NoObj == [ID |-> Empty, val |-> ZeroVal]

NoResp == [op |-> "none", obj |-> NoObj, ok |-> FALSE, applied |-> FALSE, gid |-> 0,
           err |-> Nil, cause |-> Nil, tried |-> FALSE]
NoOut == [op |-> "none", items |-> <<>>, users |-> EmptyTable, tasks |-> EmptyTable,
          err |-> Nil, call |-> FALSE]

Gids == 1..MaxReq

\* a row written before this run of the service: the database outlives the process
OldRow == [val |-> "b", created_at |-> T0 - 1, updated_at |-> T0 - 1]

\* the tables as the service may find them at start: empty, or holding the row
OldTables(ids) == {EmptyTable} \cup {WithRow(EmptyTable, id, OldRow) : id \in ids}

Init ==
    /\ store = {}
    /\ now = T0
    /\ dbNow = T0
    /\ life = NoLife
    /\ mon = NoMon
    /\ out = NoOut
    /\ status = ZeroStatus
    /\ users \in OldTables(UserIds)
    /\ tasks \in OldTables(TaskIds)
    /\ tick = [t \in Slots |-> IdleFrame]
    /\ resp = NoResp
    /\ hist = [gids |-> 0, uuids |-> 0, fires |-> 0, reqs |-> 0, faults |-> 0,
               accepted |-> {}, applied |-> {}, dropped |-> {}, skipped |-> {},
               applies |-> [g \in Gids |-> 0],
               oks |-> [g \in Gids |-> 0], batched |-> {}]

\* entries of the bucket that carry the accepted record g
Copies(s, g) == {e \in s : Decodes(e.v) /\ e.v.gid = g}

\* the accepted records that have an entry in the bucket
Stored(s) == {e.v.gid : e \in {x \in s : Decodes(x.v)}}

\* a bolt transaction of the drain either commits or fails with an I/O error
Commits(ok) == ok \/ hist.faults < MaxFaults
Fault(ok) == IF ok THEN 0 ELSE 1

(***************************************************************************)
(* Environment and monitor.                                                *)
(***************************************************************************)
\* Monitor.refresh: one probe round replaces the snapshot. pg, redis: whether
\* the ping of PostgreSQL / Redis came back without error within its timeout.
Refresh(pg, redis) ==
    /\ status' = [PostgreSQL |-> pg, Redis |-> redis,
                  Buffer |-> TRUE, BufferSize |-> Size(store)]
    /\ status' # status
    /\ UNCHANGED <<store, now, dbNow, life, mon, out, users, tasks, tick, resp, hist>>


(***************************************************************************)
(* The buffer processor: the cron job and Drain.                           *)
(***************************************************************************)
\* a plausible slip: the offline check is left out of Drain
DrainNeverSkips == FALSE

\* Drain's early return: bp.monitor != nil && !bp.monitor.IsOnline()
DrainSkips == ~IsOnline(status)

\* a plausible slip: the loop does not move on, the record is taken again
NextRecordAgain(f) == [f EXCEPT !.pc = "loop", !.cur = NoItem]

\* the frame of a Drain that has finished with record i of its batch
NextRecord(f) ==
    IF f.i + 1 > Len(f.items) THEN IdleFrame
    ELSE [f EXCEPT !.pc = "loop", !.i = f.i + 1, !.cur = NoItem]

\* The cron schedule fires: robfig/cron starts the job in a goroutine of its
\* own, whether or not an earlier run of the job has returned. The job runs
\* Drain up to the end of GetBatch.
CronFire(t) ==
    /\ hist.fires < MaxFires
    /\ tick[t].pc = "idle"
    /\ \A u \in Slots : u < t => tick[u].pc # "idle"
    /\ IF DrainSkips
       THEN /\ tick' = tick
            /\ hist' = [hist EXCEPT !.fires = @ + 1,
                                    !.skipped = @ \cup Stored(store)]
       ELSE LET items == GetBatch(store, BatchSize)
            IN /\ tick' = [tick EXCEPT ![t] =
                             IF items = <<>> THEN IdleFrame
                             ELSE [pc |-> "loop", items |-> items, i |-> 1, cur |-> NoItem]]
               /\ hist' = [hist EXCEPT !.fires = @ + 1,
                                       !.batched = @ \cup {items[i].gid : i \in 1..Len(items)}]
    /\ UNCHANGED <<store, now, dbNow, life, mon, out, status, users, tasks, resp>>

\* the next uuid.NewString() is consumed by Create when the payload has no id
TakesUUID(item) ==
    /\ item.Entity = EntityTask
    /\ item.Operation = OperationCreate
    /\ DecodesObject(item.Data)
    /\ item.Data.id = Empty

\* One pass of Drain's loop body up to and including the first store call:
\* processItem, then Remove after a success, Remove of a record whose budget is
\* spent, or the Remove that precedes Requeue. ok: the Remove transaction commits.
DrainItem(t, up, ok) ==
    /\ tick[t].pc = "loop"
    /\ Commits(ok)
    /\ LET f == tick[t]
           item == f.items[f.i]
           r == processItem(item, users, tasks, NewUUID(hist.uuids), up, dbNow)
           failed == [item EXCEPT !.Retries = item.Retries + 1]
           h == [hist EXCEPT
                    !.faults = @ + Fault(ok),
                    !.uuids = @ + (IF TakesUUID(item) THEN 1 ELSE 0),
                    !.applies = [@ EXCEPT ![item.gid] = @ + 1],
                    !.oks = [@ EXCEPT ![item.gid] = @ + (IF r.err = Nil THEN 1 ELSE 0)]]
       IN /\ users' = r.users
          /\ tasks' = r.tasks
          /\ store' = IF ok THEN Remove(store, item) ELSE store
          /\ IF r.err = Nil
             THEN /\ tick' = [tick EXCEPT ![t] = NextRecord(f)]
                  /\ hist' = IF ok THEN [h EXCEPT !.applied = @ \cup {item.gid}] ELSE h
             ELSE IF failed.Retries >= MaxRetries
             THEN /\ tick' = [tick EXCEPT ![t] = NextRecord(f)]
                  /\ hist' = IF ok THEN [h EXCEPT !.dropped = @ \cup {item.gid}] ELSE h
             ELSE /\ tick' = [tick EXCEPT ![t] = [f EXCEPT !.pc = "requeue", !.cur = failed]]
                  /\ hist' = h
    /\ UNCHANGED <<now, dbNow, life, mon, out, status, resp>>

\* the Requeue that follows the Remove of a failed record. ok: its transaction commits.
DrainRequeue(t, ok) ==
    /\ tick[t].pc = "requeue"
    /\ Commits(ok)
    /\ LET f == tick[t]
       IN /\ store' = IF ok THEN Requeue(store, f.cur, NewUUID(hist.uuids), now) ELSE store
          /\ tick' = [tick EXCEPT ![t] = NextRecord(f)]
    /\ now' = now + 1
    /\ hist' = [hist EXCEPT !.faults = @ + Fault(ok)]
    /\ UNCHANGED <<dbNow, life, mon, out, status, users, tasks, resp>>


(***************************************************************************)
(* BufferOperation, the bridge and the use cases.                          *)
(***************************************************************************)
\* a plausible slip: the monitor is not asked before the immediate apply
TriesDirectAlways == TRUE

\* BufferOperation's guard of the immediate apply: bp.monitor == nil || IsOnline()
TriesDirect == IsOnline(status)

\* a plausible slip: the early return after a successful immediate apply is missing
EnqueuesAlways(direct) == TRUE

\* BufferOperation reaches store.Enqueue unless the immediate apply returned nil
EnqueuesAfter(direct) == ~direct

\* a plausible slip: BufferOperation reports success although Enqueue failed
BufferOperationResultIgnoresStore(applied, enqueueOk) == Nil

\* what BufferOperation returns: nil after an immediate apply, else Enqueue's error
BufferOperationResult(applied, enqueueOk) ==
    IF applied \/ enqueueOk THEN Nil ELSE ErrStore

\* BufferProcessor.BufferOperation(item) on behalf of operation op. When the
\* monitor says online the item is processed at once; when that fails, or the
\* monitor says offline, the item is enqueued. up: PostgreSQL answers the
\* immediate apply; ok: Enqueue's transaction commits; orig: the error the
\* caller reports when BufferOperation fails.
BufferOperation(op, obj, item, up, ok, orig) ==
    LET try == TriesDirect
        r == processItem(item, users, tasks, NewUUID(hist.uuids), up, dbNow)
        direct == try /\ r.err = Nil
        enq == EnqueuesAfter(direct)
        stored == enq /\ ok
        taken == IF try /\ TakesUUID(item) THEN 1 ELSE 0
        g == hist.gids + 1
        result == BufferOperationResult(direct, ok)
    IN /\ Commits(ok \/ ~enq)
       /\ users' = IF direct THEN r.users ELSE users
       /\ tasks' = IF direct THEN r.tasks ELSE tasks
       /\ store' = IF stored
                   THEN Enqueue(store, [item EXCEPT !.gid = g],
                                NewUUID(hist.uuids + taken), now)
                   ELSE store
       /\ now' = IF enq THEN now + 1 ELSE now
       /\ hist' = [hist EXCEPT
                      !.reqs = @ + 1,
                      !.faults = @ + (IF enq THEN Fault(ok) ELSE 0),
                      !.uuids = @ + taken
                                  + (IF enq /\ item.ID = Empty THEN 1 ELSE 0),
                      !.gids = IF stored THEN g ELSE @,
                      !.accepted = IF stored THEN @ \cup {g} ELSE @]
       /\ resp' = [op |-> op, obj |-> obj, ok |-> result = Nil, applied |-> direct,
                   gid |-> IF stored THEN g ELSE 0,
                   err |-> IF result = Nil THEN Nil ELSE orig,
                   cause |-> orig, tried |-> try]

\* BufferBridge.BufferProfile builds the item: no id, priority 3
ProfileItem(operation, user) ==
    NewItem(Empty, EntityProfile, operation, MarshalUser(user), 3)

\* BufferBridge.BufferTask builds the item: the task's id, priority 4
TaskItem(operation, task) ==
    NewItem(task.ID, EntityTask, operation, MarshalTask(task), 4)

\* a use case returns to its handler right after its repository call
Return(op, obj, err) ==
    /\ resp' = [op |-> op, obj |-> obj, ok |-> err = Nil, applied |-> err = Nil,
                gid |-> 0, err |-> err, cause |-> err, tried |-> FALSE]
    /\ hist' = [hist EXCEPT !.reqs = @ + 1]
    /\ UNCHANGED <<store, now>>

CanCall == hist.reqs < MaxReq

\* profile.UseCase.UpdateProfile. up1: PostgreSQL answers users.Upsert; up2, ok:
\* as in BufferOperation (uc.buffer is never nil in main).
UpdateProfile(id, val, up1, up2, ok) ==
    /\ CanCall
    /\ LET user == User(id, val)
           r == Upsert(users, user, up1, dbNow)
       IN IF r.err = Nil
          THEN users' = r.tbl /\ tasks' = tasks /\ Return("UpdateProfile", user, Nil)
          ELSE BufferOperation("UpdateProfile", user, ProfileItem(OperationUpdate, user),
                               up2, ok, r.err)
    /\ UNCHANGED <<dbNow, life, mon, out, status, tick>>

\* task.UseCase.CreateTask with shouldBuffer
CreateTask(id, val, up1, up2, ok) ==
    /\ CanCall
    /\ LET r == Create(tasks, Task(id, val), NewUUID(hist.uuids), up1, dbNow)
       IN IF r.err = Nil
          THEN tasks' = r.tbl /\ users' = users /\ Return("CreateTask", r.task, Nil)
          ELSE BufferOperation("CreateTask", r.task, TaskItem(OperationCreate, r.task),
                               up2, ok, r.err)
    /\ UNCHANGED <<dbNow, life, mon, out, status, tick>>

\* task.UseCase.UpdateTask with shouldBuffer
UpdateTask(id, val, up1, up2, ok) ==
    /\ CanCall
    /\ LET task == Task(id, val)
           r == Update(tasks, task, up1, dbNow)
       IN IF r.err = Nil
          THEN tasks' = r.tbl /\ users' = users /\ Return("UpdateTask", task, Nil)
          ELSE BufferOperation("UpdateTask", task, TaskItem(OperationUpdate, task),
                               up2, ok, r.err)
    /\ UNCHANGED <<dbNow, life, mon, out, status, tick>>

\* task.UseCase.DeleteTask with shouldBuffer
DeleteTask(id, up1, up2, ok) ==
    /\ CanCall
    /\ LET r == DeleteRow(tasks, id, up1)
       IN IF r.err = Nil \/ r.err = ErrTaskNotFound
          THEN tasks' = r.tbl /\ users' = users /\ Return("DeleteTask", Task(id, ZeroVal), r.err)
          ELSE BufferOperation("DeleteTask", Task(id, ZeroVal), TaskItem(OperationDelete, Task(id, ZeroVal)),
                               up2, ok, r.err)
    /\ UNCHANGED <<dbNow, life, mon, out, status, tick>>

\* records other callers of the exported BufferOperation hand in: a task
\* record whose payload does not decode into a domain.Task
RawItems == {NewItem(Empty, EntityTask, OperationUpdate, PoisonData, 4)}

\* BufferProcessor.BufferOperation called directly
BufferOperationCall(item, up, ok) ==
    /\ CanCall
    /\ BufferOperation("BufferOperation", NoObj, item, up, ok, ErrStore)
    /\ UNCHANGED <<dbNow, life, mon, out, status, tick>>

Next ==
    \/ \E pg \in BOOLEAN, redis \in BOOLEAN : Refresh(pg, redis)
    \/ \E t \in Slots : CronFire(t)
    \/ \E t \in Slots, up \in BOOLEAN, ok \in BOOLEAN : DrainItem(t, up, ok)
    \/ \E t \in Slots, ok \in BOOLEAN : DrainRequeue(t, ok)
    \/ \E id \in UserIds, val \in ReqVals, up1 \in BOOLEAN, up2 \in BOOLEAN, ok \in BOOLEAN :
          UpdateProfile(id, val, up1, up2, ok)
    \/ \E id \in TaskIds, val \in ReqVals, up1 \in BOOLEAN, up2 \in BOOLEAN, ok \in BOOLEAN :
          CreateTask(id, val, up1, up2, ok)
    \/ \E id \in TaskIds, val \in ReqVals, up1 \in BOOLEAN, up2 \in BOOLEAN, ok \in BOOLEAN :
          UpdateTask(id, val, up1, up2, ok)
    \/ \E id \in TaskIds, up1 \in BOOLEAN, up2 \in BOOLEAN, ok \in BOOLEAN :
          DeleteTask(id, up1, up2, ok)
    \/ \E item \in RawItems, up \in BOOLEAN, ok \in BOOLEAN : BufferOperationCall(item, up, ok)

Spec == Init /\ [][Next]_vars


(***************************************************************************)
(* Properties of the running service, checked under Spec.                  *)
(***************************************************************************)
\* the step is a firing of the cron schedule
IsCronFire == hist'.fires # hist.fires

\* the step is the return of a use case or of BufferOperation to its caller
IsReturn == hist'.reqs # hist.reqs

\* slot t holds record g between the Remove and the Requeue of a failed apply
Requeueing(t, g) == tick[t].pc = "requeue" /\ tick[t].cur.gid = g

\* C1 - Durability: a record whose enqueue returned success is, in every later
\* state, still in the Buffer Store unless the drain removed it after a
\* successful apply or after its retries reached max_retries (a record that
\* Drain has removed and is about to requeue counts as still held).
Durability ==
    \A g \in hist.accepted :
        \/ Copies(store, g) # {}
        \/ g \in hist.applied \cup hist.dropped
        \/ \E t \in Slots : Requeueing(t, g)

\* C2 - Retry bound: processItem is called from Drain at most max_retries
\* times for one accepted record.
RetryBound == \A g \in Gids : hist.applies[g] <= MaxRetries

\* C3 - Offline skip: a cron firing that finds the monitor offline enters no
\* Drain loop, calls no repository and leaves the bucket and both tables as
\* they were.
OfflineSkip ==
    [][(IsCronFire /\ ~IsOnline(status)) =>
          /\ tick' = tick
          /\ store' = store
          /\ users' = users
          /\ tasks' = tasks
          /\ hist'.applies = hist.applies]_vars

\* C3 witness: a firing was skipped while an accepted record was in the bucket
OfflineSkipHappened == hist.skipped # {}

\* C4 - Non-overlapping ticks: at most one execution of Drain is in flight.
NonOverlappingTicks == Cardinality(InFlight) <= 1

\* the use cases that mutate
UseCaseOps == {"UpdateProfile", "CreateTask", "UpdateTask", "DeleteTask"}

\* the tables show the mutation of call op on object obj
MutationApplied(op, obj, us, ts) ==
    CASE op = "UpdateProfile" -> HasRow(us, obj.ID) /\ us[obj.ID].val = obj.val
      [] op \in {"CreateTask", "UpdateTask"} ->
            HasRow(ts, obj.ID) /\ ts[obj.ID].val = obj.val
      [] op = "DeleteTask" -> ~HasRow(ts, obj.ID)
      [] OTHER -> FALSE

\* the (entity, operation) the bridge records for call op
BufferedAs(op) ==
    CASE op = "UpdateProfile" -> <<EntityProfile, OperationUpdate>>
      [] op = "CreateTask" -> <<EntityTask, OperationCreate>>
      [] op = "UpdateTask" -> <<EntityTask, OperationUpdate>>
      [] op = "DeleteTask" -> <<EntityTask, OperationDelete>>
      [] OTHER -> <<"", "">>

\* the bucket holds a record that carries the mutation of call op on obj
MutationBuffered(op, obj, s) ==
    \E e \in s :
        /\ Decodes(e.v)
        /\ <<e.v.Entity, e.v.Operation>> = BufferedAs(op)
        /\ DecodesObject(e.v.Data)
        /\ e.v.Data.id = obj.ID
        /\ e.v.Data.val = obj.val

\* C7 - Durable acceptance: when a mutating use case returns success, its
\* repository call succeeded and the table shows the mutation, or a record
\* carrying the mutation is in the bucket at that moment.
DurableAcceptance ==
    [][(IsReturn /\ resp'.op \in UseCaseOps /\ resp'.ok) =>
          \/ resp'.applied /\ MutationApplied(resp'.op, resp'.obj, users', tasks')
          \/ MutationBuffered(resp'.op, resp'.obj, store')]_vars

\* C7 witness: a use case returned success for a mutation that was not applied
\* and is in the bucket
AcceptedByBuffering ==
    /\ resp.op \in UseCaseOps
    /\ resp.ok
    /\ ~resp.applied
    /\ MutationBuffered(resp.op, resp.obj, store)

\* C8 - Failure step: when the apply of a record fails in a drain tick, the
\* record is removed and not reinserted if its incremented retries reached
\* max_retries, and otherwise is in the bucket afterwards as exactly one entry
\* carrying the retries incremented by one.
FailureStep ==
    [][\A t \in Slots :
          /\ (tick[t].pc = "requeue" /\ tick'[t].pc # "requeue") =>
                /\ Cardinality(Copies(store', tick[t].cur.gid)) = 1
                /\ \A e \in Copies(store', tick[t].cur.gid) :
                      e.v.Retries = tick[t].items[tick[t].i].Retries + 1
          /\ (/\ tick[t].pc = "loop"
              /\ tick'[t] # tick[t]
              /\ tick'[t].pc # "requeue"
              /\ hist'.applied = hist.applied
              /\ tick[t].items[tick[t].i].gid \notin hist.applied) =>
                Copies(store', tick[t].items[tick[t].i].gid) = {}]_vars

\* the payload of a record does not deserialize into its domain object
IsPoison(item) == ~DecodesObject(item.Data)

\* C9 - Poison records: the drain step that reads a record whose payload does
\* not deserialize removes it without requeueing it and calls no repository.
PoisonDropped ==
    [][\A t \in Slots :
          (/\ tick[t].pc = "loop"
           /\ tick'[t] # tick[t]
           /\ IsPoison(tick[t].items[tick[t].i])) =>
              /\ tick'[t].pc # "requeue"
              /\ Copies(store', tick[t].items[tick[t].i].gid) = {}
              /\ users' = users
              /\ tasks' = tasks]_vars


(***************************************************************************)
(* The Buffer Store on its own: direct calls of the Store API, as Drain    *)
(* and BufferOperation make them, with time passing between the calls.     *)
(***************************************************************************)
\* priorities callers pass, in and out of the accepted range 1..5
StorePriorities == {0, 1, 4, 6}

\* ids callers pass: none (the bridge's profile records) or a task id
StoreIds == {Empty} \cup TaskIds

\* limits passed to GetBatch; 0 selects the default
StoreLimits == {0, 2}

InitStore ==
    /\ store = {}
    /\ now = T0
    /\ dbNow = T0
    /\ life = NoLife
    /\ mon = NoMon
    /\ out = NoOut
    /\ status = ZeroStatus
    /\ users = EmptyTable
    /\ tasks = EmptyTable
    /\ tick = [t \in Slots |-> IdleFrame]
    /\ resp = NoResp
    /\ hist = [gids |-> 0, uuids |-> 0, fires |-> 0, reqs |-> 0, faults |-> 0,
               accepted |-> {}, applied |-> {}, dropped |-> {}, skipped |-> {},
               applies |-> [g \in Gids |-> 0],
               oks |-> [g \in Gids |-> 0], batched |-> {}]

\* time passes
StoreTick ==
    /\ now < MaxTime
    /\ now' = now + 1
    /\ UNCHANGED <<store, dbNow, life, mon, out, status, users, tasks, tick, resp, hist>>

\* Store.Enqueue of a fresh item
StoreEnqueue(id, priority) ==
    /\ hist.gids < MaxEnq
    /\ LET item == NewItem(id, EntityTask, OperationUpdate,
                           MarshalTask(Task(id, ZeroVal)), priority)
       IN store' = Enqueue(store, item, NewUUID(hist.uuids), now)
    /\ hist' = [hist EXCEPT !.gids = @ + 1,
                            !.uuids = @ + (IF id = Empty THEN 1 ELSE 0)]
    /\ out' = [NoOut EXCEPT !.op = "Enqueue"]
    /\ UNCHANGED <<now, dbNow, life, mon, status, users, tasks, tick, resp>>

\* Store.GetBatch
StoreGetBatch(limit) ==
    /\ out' = [NoOut EXCEPT !.op = "GetBatch", !.items = GetBatch(store, limit)]
    /\ out' # out
    /\ UNCHANGED <<store, now, dbNow, life, mon, status, users, tasks, tick, resp, hist>>

\* Store.Remove of item i of the last batch; byID: the caller's copy of the
\* item has lost its bucket key, so that Remove goes through deleteByID
StoreRemove(i, byID) ==
    /\ i \in 1..Len(out.items)
    /\ LET item == out.items[i]
       IN store' = Remove(store, IF byID THEN [item EXCEPT !.bucketKey = Empty] ELSE item)
    /\ out' = [NoOut EXCEPT !.op = "Remove"]
    /\ UNCHANGED <<now, dbNow, life, mon, status, users, tasks, tick, resp, hist>>

\* Store.Remove and then Store.Requeue of item i of the last batch, as Drain
\* calls them after a failed apply
StoreRequeue(i) ==
    /\ i \in 1..Len(out.items)
    /\ LET item == out.items[i]
       IN store' = Requeue(Remove(store, item), item, NewUUID(hist.uuids), now)
    /\ out' = [NoOut EXCEPT !.op = "Requeue"]
    /\ UNCHANGED <<now, dbNow, life, mon, status, users, tasks, tick, resp, hist>>

NextStore ==
    \/ StoreTick
    \/ \E id \in StoreIds, priority \in StorePriorities : StoreEnqueue(id, priority)
    \/ \E limit \in StoreLimits : StoreGetBatch(limit)
    \/ \E i \in 1..MaxEnq, byID \in BOOLEAN : StoreRemove(i, byID)
    \/ \E i \in 1..MaxEnq : StoreRequeue(i)

SpecStore == InitStore /\ [][NextStore]_vars

\* out holds a batch read from the bucket as it is now
BatchIsCurrent == out.op = "GetBatch"

\* C5 - Priority precedence: in every batch a record of smaller priority
\* number stands before every record of larger priority number.
PriorityPrecedence ==
    BatchIsCurrent =>
        \A i, j \in 1..Len(out.items) :
            out.items[i].Priority < out.items[j].Priority => i < j

\* C5 witness: a batch where the record that stands first was enqueued later
LaterButFirst ==
    /\ BatchIsCurrent
    /\ \E i, j \in 1..Len(out.items) :
          /\ i < j
          /\ out.items[i].Priority < out.items[j].Priority
          /\ out.items[i].Timestamp > out.items[j].Timestamp

\* C6 - Ordering within a priority class: a batch that contains b, read while
\* a record a of the same priority and earlier enqueue time is in the bucket,
\* contains a before b.
OrderWithinClass ==
    BatchIsCurrent =>
        \A j \in 1..Len(out.items) :
            \A e \in {x \in store : Decodes(x.v)} :
                (/\ e.v.Priority = out.items[j].Priority
                 /\ e.v.Timestamp < out.items[j].Timestamp) =>
                    \E i \in 1..(j - 1) : out.items[i].bucketKey = e.k

\* C6 witness: a batch with two records of one priority enqueued at times
\* whose decimal renderings differ in length
SameClassAcrossDigits ==
    /\ BatchIsCurrent
    /\ \E i, j \in 1..Len(out.items) :
          /\ i < j
          /\ out.items[i].Priority = out.items[j].Priority
          /\ out.items[i].Timestamp < out.items[j].Timestamp
          /\ Len(Decimal(out.items[i].Timestamp)) < Len(Decimal(out.items[j].Timestamp))


(***************************************************************************)
(* processItem on its own: one record applied to a repository state, and   *)
(* applied again later, with PostgreSQL answering.                         *)
(***************************************************************************)
\* the records of the dispatch table over the ids and values of the model;
\* a task payload may come without an id
ApplyRecords ==
    {NewItem(Empty, EntityProfile, OperationUpdate, MarshalUser(User(id, val)),
             DefaultPriority) : id \in UserIds, val \in Vals}
    \cup
    {NewItem(Empty, EntityTask, operation, MarshalTask(Task(id, val)),
             DefaultPriority) :
        operation \in {OperationCreate, OperationUpdate, OperationDelete},
        id \in TaskIds \cup {Empty}, val \in Vals}

InitApply ==
    /\ store = {}
    /\ now = T0
    /\ dbNow = T0
    /\ life = NoLife
    /\ mon = NoMon
    /\ out = NoOut
    /\ status = ZeroStatus
    /\ users \in OldTables(UserIds)
    /\ tasks \in OldTables(TaskIds)
    /\ tick = [t \in Slots |-> IdleFrame]
    /\ resp = NoResp
    /\ hist = [gids |-> 0, uuids |-> 0, fires |-> 0, reqs |-> 0, faults |-> 0,
               accepted |-> {}, applied |-> {}, dropped |-> {}, skipped |-> {},
               applies |-> [g \in Gids |-> 0],
               oks |-> [g \in Gids |-> 0], batched |-> {}]

\* the database clock advances
DbTick ==
    /\ dbNow < MaxTime
    /\ dbNow' = dbNow + 1
    /\ UNCHANGED <<store, now, out, status, users, tasks, tick, resp, hist, life, mon>>

\* processItem(item) with result tag op: out keeps the record and the
\* repository state the call left
Apply(item, op) ==
    LET r == processItem(item, users, tasks, NewUUID(hist.uuids), TRUE, dbNow)
    IN /\ users' = r.users
       /\ tasks' = r.tasks
       /\ hist' = [hist EXCEPT !.uuids = @ + (IF TakesUUID(item) THEN 1 ELSE 0)]
       /\ out' = IF op = "once"
                 THEN [op |-> op, items |-> <<item>>, users |-> r.users, tasks |-> r.tasks,
                       err |-> r.err, call |-> r.call]
                 ELSE [out EXCEPT !.op = op, !.err = r.err, !.call = r.call]
       /\ UNCHANGED <<store, now, dbNow, life, mon, status, tick, resp>>

\* a record is applied for the first time
ApplyOnce(item) ==
    /\ out.op = "none"
    /\ Apply(item, "once")

\* the same record is applied a second time
ApplyAgain ==
    /\ out.op = "once"
    /\ Apply(out.items[1], "twice")

NextApply ==
    \/ DbTick
    \/ \E item \in ApplyRecords : ApplyOnce(item)
    \/ ApplyAgain

SpecApply == InitApply /\ [][NextApply]_vars

\* a table without the updated_at column
WithoutUpdatedAt(tbl) ==
    [id \in DOMAIN tbl |-> [val |-> tbl[id].val, created_at |-> tbl[id].created_at]]

ReplayOutcome ==
    (/\ out.op \in {"once", "twice"}
     /\ out.items[1].Entity = EntityTask
     /\ out.items[1].Operation \in {OperationCreate, OperationDelete}
     /\ out.items[1].Data.id # Empty) =>
        out.err = Nil

(***************************************************************************)
(* processItem over records in and out of the dispatch table.              *)
(***************************************************************************)
\* the (entity, operation) pairs of the dispatch table
DispatchTable ==
    {<<EntityProfile, OperationUpdate>>, <<EntityTask, OperationCreate>>,
     <<EntityTask, OperationUpdate>>, <<EntityTask, OperationDelete>>}

\* records whose (entity, operation) is not in the dispatch table
OffTableRecords ==
    {NewItem(Empty, EntityProfile, operation, MarshalUser(User(id, val)),
             DefaultPriority) :
        operation \in {OperationCreate, OperationDelete}, id \in UserIds, val \in Vals}
    \cup
    {NewItem(Empty, EntityTask, "archive", MarshalTask(Task(id, val)),
             DefaultPriority) : id \in TaskIds, val \in Vals}
    \cup
    {NewItem(Empty, "session", OperationUpdate, MarshalUser(User(id, val)),
             DefaultPriority) : id \in UserIds, val \in Vals}

NextDispatch ==
    \/ DbTick
    \/ \E item \in ApplyRecords \cup OffTableRecords : ApplyOnce(item)

SpecDispatch == InitApply /\ [][NextDispatch]_vars

\* C16 - Closed dispatch table: the apply of a record whose (entity,
\* operation) is not in the dispatch table fails as unsupported and calls no
\* repository.
ClosedDispatch ==
    (/\ out.op = "once"
     /\ <<out.items[1].Entity, out.items[1].Operation>> \notin DispatchTable) =>
        /\ out.err = ErrUnsupported
        /\ ~out.call


(***************************************************************************)
(* Further properties of the running service, checked under Spec.          *)
(***************************************************************************)
\* C12 - Fast-path error propagation: when the repository call of a use case
\* fails with not_found or invalid, the use case returns that error and no
\* record is enqueued.
FastPathPropagation ==
    [][(/\ IsReturn
        /\ resp'.op \in UseCaseOps
        /\ resp'.cause \in {ErrTaskNotFound, ErrInvalidPayload}) =>
          /\ ~resp'.ok
          /\ resp'.err = resp'.cause
          /\ store' = store]_vars

\* C14 - Direct apply: when the monitor reports online and a repository call
\* for the mutation succeeds, the operation returns success and the bucket is
\* as it was.
DirectApply ==
    [][(IsReturn /\ IsOnline(status) /\ resp'.applied) =>
          /\ resp'.ok
          /\ store' = store
          /\ Size(store') = Size(store)]_vars

\* C14 witness: BufferOperation applied a mutation at once, the monitor being
\* online, and the bucket is empty
DirectApplyHappened ==
    /\ resp.op \in UseCaseOps
    /\ resp.tried
    /\ resp.applied
    /\ resp.ok
    /\ IsOnline(status)
    /\ MutationApplied(resp.op, resp.obj, users, tasks)
    /\ Size(store) = 0

\* the payload the bridge serializes for call op on obj
PayloadOf(op, obj) ==
    IF op = "UpdateProfile" THEN MarshalUser(obj) ELSE MarshalTask(obj)

\* entry e is the record of call op on obj as first enqueued
IsFreshRecord(e, op, obj) ==
    /\ Decodes(e.v)
    /\ <<e.v.Entity, e.v.Operation>> = BufferedAs(op)
    /\ e.v.Data = PayloadOf(op, obj)
    /\ e.v.Retries = 0

\* C15 - Offline enqueue: when the repository call of a mutating use case
\* fails because the row store is down and the mutation is not applied at
\* once, BufferOperation calls no repository if the monitor says offline, and,
\* the write to the bucket committing, the use case returns success with
\* exactly one entry added: the request's entity, operation and serialized
\* object, retries 0.
OfflineEnqueue ==
    [][(/\ IsReturn
        /\ resp'.op \in UseCaseOps
        /\ resp'.cause = ErrUnavailable
        /\ ~resp'.applied) =>
          /\ ~IsOnline(status) => ~resp'.tried
          /\ hist'.faults = hist.faults =>
                /\ resp'.ok
                /\ store \subseteq store'
                /\ Cardinality(store' \ store) = 1
                /\ \A e \in store' \ store :
                      IsFreshRecord(e, resp'.op, resp'.obj)]_vars

\* C15 witness: CreateTask returned success with the row store down while the
\* snapshot still said online, and the bucket holds the one record
OfflineEnqueueHappened ==
    /\ resp.op = "CreateTask"
    /\ resp.cause = ErrUnavailable
    /\ resp.tried
    /\ ~resp.applied
    /\ resp.ok
    /\ Size(store) = 1
    /\ \A e \in store : IsFreshRecord(e, resp.op, resp.obj)

\* C18 - Re-enqueue is the only mutation of a record: the entry that Drain's
\* Requeue writes has the id, priority, payload, entity and operation of the
\* item read from the batch, the current time as its timestamp, that item's
\* retries plus 1, and no fewer retries than any entry of the same id that is
\* in the bucket when it is written.
RequeueOnlyMutation ==
    [][\A t \in Slots :
          (tick[t].pc = "requeue" /\ tick'[t] # tick[t]) =>
              \A e \in store' \ store :
                  LET item == tick[t].items[tick[t].i]
                  IN /\ e.v.ID = item.ID
                     /\ e.v.Priority = item.Priority
                     /\ e.v.Data = item.Data
                     /\ e.v.Entity = item.Entity
                     /\ e.v.Operation = item.Operation
                     /\ e.v.Timestamp = now
                     /\ e.v.Retries = item.Retries + 1
                     /\ \A o \in {x \in store : Decodes(x.v)} :
                           o.v.ID = e.v.ID => o.v.Retries <= e.v.Retries]_vars

\* C19 - Health consistency: IsOnline() is true exactly when the snapshot
\* GetStatus() returns at the same moment has PostgreSQL and Redis both true.
HealthConsistency ==
    IsOnline(status) <=> (GetStatus(status).PostgreSQL /\ GetStatus(status).Redis)

\* C19 witness: a probe round found PostgreSQL up and Redis down, and
\* IsOnline() is false
OfflineWithPostgresUp ==
    /\ GetStatus(status).PostgreSQL
    /\ ~GetStatus(status).Redis
    /\ GetStatus(status).Buffer
    /\ ~IsOnline(status)

\* C24 - Drain on recovery: in a drain tick that runs with the monitor online,
\* a record of the batch whose repository call succeeded is no longer in the
\* buffer when Drain goes on, and when it was the whole batch and the whole
\* buffer, the buffer's size is 0 afterwards.
DrainOnRecovery ==
    [][\A t \in Slots :
          (tick[t].pc = "loop" /\ tick'[t] # tick[t] /\ hist'.oks # hist.oks) =>
              LET item == tick[t].items[tick[t].i]
              IN /\ Copies(store', item.gid) = {}
                 /\ (Len(tick[t].items) = 1 /\ Size(store) <= 1) => Size(store') = 0]_vars

(***************************************************************************)
(* The bucket as the buffer bridge fills it: records built by               *)
(* BufferProfile and BufferTask, enqueued while the stores are away.        *)
(***************************************************************************)
\* the items BufferProfile and BufferTask build for the use cases
BridgeItems ==
    {ProfileItem(OperationUpdate, User(id, val)) : id \in UserIds, val \in ReqVals}
        \cup {TaskItem(operation, Task(id, val)) :
                operation \in {OperationCreate, OperationUpdate, OperationDelete},
                id \in TaskIds, val \in ReqVals}

\* BufferOperation with the monitor offline: Store.Enqueue of the bridge's item
StoreBridge(item) ==
    /\ hist.gids < MaxEnq
    /\ store' = Enqueue(store, item, NewUUID(hist.uuids), now)
    /\ hist' = [hist EXCEPT !.gids = @ + 1,
                            !.uuids = @ + (IF item.ID = Empty THEN 1 ELSE 0)]
    /\ out' = [NoOut EXCEPT !.op = "Enqueue"]
    /\ UNCHANGED <<now, dbNow, life, mon, status, users, tasks, tick, resp>>

NextBridge ==
    \/ StoreTick
    \/ \E item \in BridgeItems : StoreBridge(item)
    \/ \E limit \in StoreLimits : StoreGetBatch(limit)

SpecBridge == InitStore /\ [][NextBridge]_vars

\* C13 - Tasks drain first: in every batch a record buffered by BufferTask
\* stands before every record buffered by BufferProfile.
TasksDrainFirst ==
    BatchIsCurrent =>
        \A i, j \in 1..Len(out.items) :
            (/\ out.items[i].Entity = EntityProfile
             /\ out.items[j].Entity = EntityTask) => j < i

\* C17 - Id uniqueness: no two entries of the bucket carry the same id.
UniqueIds ==
    \A e1, e2 \in {x \in store : Decodes(x.v)} :
        e1 # e2 => e1.v.ID # e2.v.ID

(***************************************************************************)
(* The health endpoint, next to the monitor and the use cases.              *)
(***************************************************************************)
\* transport.NewSuccess and transport.NewError
NoPayload == [services |-> "none"]
NewSuccess(data) ==
    [Status |-> "success", Code |-> "", Data |-> data, Error |-> "", Meta |-> NoPayload]
NewError(code, err, meta) ==
    [Status |-> "error", Code |-> code, Data |-> NoPayload, Error |-> err, Meta |-> meta]

\* a plausible slip: || for && in the test of Check
CheckHealthyEither(st) == st.PostgreSQL \/ st.Redis

\* the test of HealthHandler.Check on the snapshot it read
CheckHealthy(st) == st.PostgreSQL /\ st.Redis

\* HealthHandler.Check: GET /health
HealthCheck ==
    /\ LET st == GetStatus(status)
           payload == [timestamp |-> now,
                       services |-> [postgresql |-> st.PostgreSQL,
                                     redis |-> st.Redis,
                                     buffer |-> [online |-> st.Buffer,
                                                 size |-> st.BufferSize]]]
       IN resp' = IF CheckHealthy(st)
                  THEN [op |-> "Check", code |-> 200, body |-> NewSuccess(payload)]
                  ELSE [op |-> "Check", code |-> 503,
                        body |-> NewError("DEGRADED", "dependencies unhealthy", payload)]
    /\ resp' # resp
    /\ UNCHANGED <<store, now, dbNow, life, mon, out, status, users, tasks, tick, hist>>

NextHealth ==
    \/ \E pg \in BOOLEAN, redis \in BOOLEAN : Refresh(pg, redis)
    \/ HealthCheck
    \/ \E id \in UserIds, val \in ReqVals, up1 \in BOOLEAN, up2 \in BOOLEAN, ok \in BOOLEAN :
          UpdateProfile(id, val, up1, up2, ok)
    \/ \E id \in TaskIds, val \in ReqVals, up1 \in BOOLEAN, up2 \in BOOLEAN, ok \in BOOLEAN :
          CreateTask(id, val, up1, up2, ok)
    \/ \E id \in TaskIds, val \in ReqVals, up1 \in BOOLEAN, up2 \in BOOLEAN, ok \in BOOLEAN :
          UpdateTask(id, val, up1, up2, ok)
    \/ \E id \in TaskIds, up1 \in BOOLEAN, up2 \in BOOLEAN, ok \in BOOLEAN :
          DeleteTask(id, up1, up2, ok)

SpecHealth == Init /\ [][NextHealth]_vars

\* the payload of a response of Check, wherever its envelope carries it
PayloadIn(body) == IF body.Status = "success" THEN body.Data ELSE body.Meta

\* this step is a run of Check
IsCheck == resp'.op = "Check" /\ resp' # resp

\* C20 - Health endpoint: GET /health answers 200 exactly when the snapshot
\* has PostgreSQL and Redis both up and otherwise 503 with code DEGRADED; the
\* flags in the body are those of that snapshot; the snapshot and the bucket
\* are as they were.
HealthEndpoint ==
    [][IsCheck =>
          /\ resp'.code = 200 <=> (status.PostgreSQL /\ status.Redis)
          /\ resp'.code = 200 => resp'.body.Status = "success"
          /\ resp'.code # 200 =>
                /\ resp'.code = 503
                /\ resp'.body.Status = "error"
                /\ resp'.body.Code = "DEGRADED"
          /\ PayloadIn(resp'.body).services.postgresql = status.PostgreSQL
          /\ PayloadIn(resp'.body).services.redis = status.Redis
          /\ PayloadIn(resp'.body).services.buffer.online = status.Buffer
          /\ PayloadIn(resp'.body).services.buffer.size = status.BufferSize
          /\ status' = status
          /\ store' = store]_vars

\* C20 witness: Check answered 503 DEGRADED with PostgreSQL up and Redis down,
\* while a record is in the bucket
DegradedAnswered ==
    /\ resp.op = "Check"
    /\ resp.code = 503
    /\ resp.body.Code = "DEGRADED"
    /\ PayloadIn(resp.body).services.postgresql
    /\ ~PayloadIn(resp.body).services.redis
    /\ Size(store) = 1

(***************************************************************************)
(* The process: main's startup, the lifecycle Manager and its Shutdown.     *)
(***************************************************************************)
\* the elements of a sequence
Range(f) == {f[i] : i \in DOMAIN f}

\* the names main registers its hooks under
HookPostgres == "postgres"
HookRedis == "redis"
HookBuffer == "buffer"
HookMonitor == "monitor"
HookProcessor == "buffer_processor"
HookServer == "http_server"

\* the startup step that precedes the first hook
StepMigrations == "migrations"

\* the hooks whose function can return an error: redisClient.Close,
\* bufferStore.Close, server.Shutdown; the others return nil
Fallible == {HookRedis, HookBuffer, HookServer}

\* Manager.Register: append the hook
Register(l, name) == [l EXCEPT !.hooks = Append(@, name)]

\* a plausible slip: a failed startup step is logged and main goes on
FatalLogged(l, step, next) == [l EXCEPT !.pc = next, !.failed = step]

\* zapLogger.Fatal: log and os.Exit(1)
Fatal(l, step, next) == [l EXCEPT !.pc = "exited", !.failed = step, !.exit = 1]

\* main is at a startup step that may fail: on success the hook is registered
StartupStep(l, step, next, ok, registers) ==
    IF ok
    THEN LET m == [l EXCEPT !.pc = next, !.done = @ \cup {step}]
         IN IF registers THEN Register(m, step) ELSE m
    ELSE Fatal(l, step, next)

InitLife ==
    [pc |-> StepMigrations, hooks |-> <<>>, done |-> {}, started |-> {},
     failed |-> "none", exit |-> -1, cancelled |-> FALSE,
     k |-> 0, cur |-> "none", calls |-> <<>>, errs |-> {}, expired |-> FALSE,
     ret |-> "none"]

InitLifecycle ==
    /\ store = {}
    /\ now = T0
    /\ dbNow = T0
    /\ out = NoOut
    /\ status = ZeroStatus
    /\ users = EmptyTable
    /\ tasks = EmptyTable
    /\ tick = [t \in Slots |-> IdleFrame]
    /\ resp = NoResp
    /\ hist = [gids |-> 0, uuids |-> 0, fires |-> 0, reqs |-> 0, faults |-> 0,
               accepted |-> {}, applied |-> {}, dropped |-> {}, skipped |-> {},
               applies |-> [g \in Gids |-> 0],
               oks |-> [g \in Gids |-> 0], batched |-> {}]
    /\ life = InitLife
    /\ mon = NoMon

LifeFrame == UNCHANGED <<store, now, dbNow, out, status, users, tasks, tick, resp, hist, mon>>

\* pgInfra.RunMigrations
RunMigrations(ok) ==
    /\ life.pc = StepMigrations
    /\ life' = StartupStep(life, StepMigrations, HookPostgres, ok, FALSE)
    /\ LifeFrame

\* pgInfra.NewPool and the registration of its hook
NewPool(ok) ==
    /\ life.pc = HookPostgres
    /\ life' = StartupStep(life, HookPostgres, HookRedis, ok, TRUE)
    /\ LifeFrame

\* redisInfra.NewClient and the registration of its hook
NewClient(ok) ==
    /\ life.pc = HookRedis
    /\ life' = StartupStep(life, HookRedis, HookBuffer, ok, TRUE)
    /\ LifeFrame

\* buffer.Open and the registration of its hook
OpenStore(ok) ==
    /\ life.pc = HookBuffer
    /\ life' = StartupStep(life, HookBuffer, HookMonitor, ok, TRUE)
    /\ LifeFrame

\* mon.Start() and the registration of its hook
StartMonitor ==
    /\ life.pc = HookMonitor
    /\ life' = Register([life EXCEPT !.pc = HookProcessor, !.started = @ \cup {HookMonitor}],
                        HookMonitor)
    /\ LifeFrame

\* bufferProcessor.Start() and the registration of its hook
StartProcessor ==
    /\ life.pc = HookProcessor
    /\ life' = Register([life EXCEPT !.pc = HookServer, !.started = @ \cup {HookProcessor}],
                        HookProcessor)
    /\ LifeFrame

\* go server.ListenAndServe(...) and the registration of its hook; main then
\* waits on appCtx.Done()
Serve ==
    /\ life.pc = HookServer
    /\ life' = Register([life EXCEPT !.pc = "wait", !.started = @ \cup {HookServer}],
                        HookServer)
    /\ LifeFrame

\* SIGTERM or SIGINT: the goroutine of Manager.Listen cancels appCtx
Signal ==
    /\ life.pc # "exited"
    /\ ~life.cancelled
    /\ life' = [life EXCEPT !.cancelled = TRUE]
    /\ LifeFrame

\* ListenAndServe returns an error: zapLogger.Fatal in the server's goroutine
ServerCrash ==
    /\ life.pc \in {"wait", "shutdown"}
    /\ HookServer \notin Range(life.calls)
    /\ life' = Fatal(life, HookServer, "exited")
    /\ LifeFrame

\* main passes <-appCtx.Done() and calls manager.Shutdown
ShutdownCall ==
    /\ life.pc = "wait"
    /\ life.cancelled
    /\ life' = [life EXCEPT !.pc = "shutdown"]
    /\ LifeFrame

\* the shutdown timeout runs out while Shutdown is in its loop
DeadlinePasses ==
    /\ life.pc = "shutdown"
    /\ ~life.expired
    /\ life' = [life EXCEPT !.expired = TRUE]
    /\ LifeFrame

\* a plausible slip: the loop runs from the first hook to the last
HookIndexForward(n, k) == k + 1

\* the hook of iteration k (from 0) of Shutdown's loop: i := len(m.hooks)-1-k
HookIndex(n, k) == n - k

\* a plausible slip: break where the loop has continue
AfterFailureStop(n, k) == n

\* iterations done after the hook of iteration k failed: continue
AfterFailure(n, k) == k + 1

\* Shutdown's loop calls the next hook: h.fn(ctx)
HookStart ==
    /\ life.pc = "shutdown"
    /\ life.cur = "none"
    /\ life.k < Len(life.hooks)
    /\ LET h == life.hooks[HookIndex(Len(life.hooks), life.k)]
       IN life' = [life EXCEPT !.cur = h, !.calls = Append(@, h)]
    /\ LifeFrame

\* BufferProcessor.Stop comes back from its select: the context of cron.Stop()
\* is done when no job is running any more, the context of Shutdown when its
\* deadline has passed
StopReturns == InFlight = {} \/ life.expired

\* the hook returns; failed: with an error, which is joined to the result
HookReturn(failed) ==
    /\ life.pc = "shutdown"
    /\ life.cur # "none"
    /\ life.cur = HookProcessor => StopReturns
    /\ failed => life.cur \in Fallible
    /\ life' = [life EXCEPT
                  !.cur = "none",
                  !.errs = IF failed THEN @ \cup {life.cur} ELSE @,
                  !.k = IF failed THEN AfterFailure(Len(life.hooks), life.k) ELSE @ + 1]
    /\ LifeFrame

\* Shutdown returns the joined error, main logs it and returns
ShutdownReturn ==
    /\ life.pc = "shutdown"
    /\ life.cur = "none"
    /\ life.k >= Len(life.hooks)
    /\ life' = [life EXCEPT !.pc = "exited", !.exit = 0,
                            !.ret = IF life.errs = {} THEN "nil" ELSE "error"]
    /\ LifeFrame

NextLifecycle ==
    \/ \E ok \in BOOLEAN : RunMigrations(ok)
    \/ \E ok \in BOOLEAN : NewPool(ok)
    \/ \E ok \in BOOLEAN : NewClient(ok)
    \/ \E ok \in BOOLEAN : OpenStore(ok)
    \/ StartMonitor
    \/ StartProcessor
    \/ Serve
    \/ Signal
    \/ ServerCrash
    \/ ShutdownCall
    \/ DeadlinePasses
    \/ HookStart
    \/ \E failed \in BOOLEAN : HookReturn(failed)
    \/ ShutdownReturn

SpecLifecycle == InitLifecycle /\ [][NextLifecycle]_vars

\* the hooks of main in the reverse of their registration
ReverseOfMain ==
    <<HookServer, HookProcessor, HookMonitor, HookBuffer, HookRedis, HookPostgres>>

\* C21 - Shutdown order: Shutdown invokes the hooks in the reverse of their
\* registration, for main's hooks HTTP server, drain scheduler, monitor,
\* buffer store, then the primary-store clients, and a hook is started only
\* when the one before it has returned.
ShutdownOrder ==
    /\ \A i \in 1..Len(life.calls) :
          /\ life.calls[i] = life.hooks[Len(life.hooks) - i + 1]
          /\ life.calls[i] = ReverseOfMain[i]
    /\ Len(life.calls) = life.k + (IF life.cur = "none" THEN 0 ELSE 1)

\* C21 witness: Shutdown has returned after running main's six hooks
ShutdownRanAll ==
    /\ life.ret # "none"
    /\ Len(life.calls) = 6
    /\ life.calls[1] = HookServer
    /\ life.calls[6] = HookPostgres

\* C22 - Hook failures do not short-circuit: when Shutdown returns, every
\* registered hook has been invoked exactly once, whatever earlier hooks
\* returned and whether or not the deadline had passed, and the result is an
\* error exactly when some hook failed.
NoShortCircuit ==
    life.ret # "none" =>
        /\ \A h \in Range(life.hooks) :
              Cardinality({i \in 1..Len(life.calls) : life.calls[i] = h}) = 1
        /\ life.ret = "error" <=> life.errs # {}

\* C22 witness: the first hook failed after the deadline had passed, and
\* Shutdown still ran all six and returned an error
RanOnAfterFailure ==
    /\ life.ret = "error"
    /\ life.errs = {HookServer}
    /\ life.expired
    /\ Len(life.calls) = 6

\* the startup steps whose failure is fatal
FatalSteps == {StepMigrations, HookPostgres, HookRedis, HookBuffer}

\* C23 - Fatal startup: when migrations, a primary-store connection or the
\* opening of the buffer store fails, the process exits with nothing started;
\* the monitor, the drain scheduler and the server are started only after all
\* of these steps succeeded.
FatalStartup ==
    /\ life.failed \in FatalSteps =>
          /\ life.pc = "exited"
          /\ life.exit = 1
          /\ life.started = {}
    /\ life.started # {} => FatalSteps \subseteq life.done

\* C23 witness: buffer.Open failed after the pool was connected, and the
\* process has exited with nothing started
OpenFailedBeforeServing ==
    /\ life.failed = HookBuffer
    /\ HookPostgres \in life.done
    /\ life.pc = "exited"
    /\ life.started = {}

(***************************************************************************)
(* The Monitor's goroutine: loop, refresh in its two halves, and Stop.      *)
(***************************************************************************)
\* the Monitor as New returns it: no goroutine yet, stopCh open
\* written: a probe round has been stored
InitMon ==
    [pc |-> "new", stopped |-> FALSE, pending |-> FALSE, probe |-> ZeroStatus,
     written |-> FALSE]

InitMonitor ==
    /\ store = {}
    /\ now = T0
    /\ dbNow = T0
    /\ out = NoOut
    /\ status = ZeroStatus
    /\ users = EmptyTable
    /\ tasks = EmptyTable
    /\ tick = [t \in Slots |-> IdleFrame]
    /\ resp = NoResp
    /\ hist = [gids |-> 0, uuids |-> 0, fires |-> 0, reqs |-> 0, faults |-> 0,
               accepted |-> {}, applied |-> {}, dropped |-> {}, skipped |-> {},
               applies |-> [g \in Gids |-> 0],
               oks |-> [g \in Gids |-> 0], batched |-> {}]
    /\ life = NoLife
    /\ mon = InitMon

MonFrame == UNCHANGED <<store, now, dbNow, out, users, tasks, tick, resp, hist, life>>

\* Monitor.Start: go m.loop(); the loop begins with a refresh
MonStart ==
    /\ mon.pc = "new"
    /\ mon' = [mon EXCEPT !.pc = "refresh"]
    /\ UNCHANGED status
    /\ MonFrame

\* the ticker delivers a tick into its channel of capacity one
TickerFires ==
    /\ mon.pc \in {"refresh", "write", "select"}
    /\ ~mon.pending
    /\ mon' = [mon EXCEPT !.pending = TRUE]
    /\ UNCHANGED status
    /\ MonFrame

\* the first half of refresh: checkBuffer, checkPostgres, checkRedis fill the
\* local Status. pg, redis: whether the pings came back without error
Probe(pg, redis) ==
    /\ mon.pc = "refresh"
    /\ mon' = [mon EXCEPT !.pc = "write",
                          !.probe = [PostgreSQL |-> pg, Redis |-> redis,
                                     Buffer |-> TRUE, BufferSize |-> Size(store)]]
    /\ UNCHANGED status
    /\ MonFrame

\* the second half of refresh: m.status = status under the lock
ProbeWrite ==
    /\ mon.pc = "write"
    /\ status' = mon.probe
    /\ mon' = [mon EXCEPT !.pc = "select", !.written = TRUE]
    /\ MonFrame

\* the select of loop takes the ticker's case
SelectTick ==
    /\ mon.pc = "select"
    /\ mon.pending
    /\ mon' = [mon EXCEPT !.pc = "refresh", !.pending = FALSE]
    /\ UNCHANGED status
    /\ MonFrame

\* the select of loop takes the case of the closed stopCh: the goroutine returns
SelectStop ==
    /\ mon.pc = "select"
    /\ mon.stopped
    /\ mon' = [mon EXCEPT !.pc = "exited"]
    /\ UNCHANGED status
    /\ MonFrame

\* Monitor.Stop: close(m.stopCh), and return
MonStop ==
    /\ mon.pc # "new"
    /\ ~mon.stopped
    /\ mon' = [mon EXCEPT !.stopped = TRUE]
    /\ UNCHANGED status
    /\ MonFrame

NextMonitor ==
    \/ MonStart
    \/ TickerFires
    \/ \E pg \in BOOLEAN, redis \in BOOLEAN : Probe(pg, redis)
    \/ ProbeWrite
    \/ SelectTick
    \/ SelectStop
    \/ MonStop

SpecMonitor == InitMonitor /\ [][NextMonitor]_vars

\* C30 - Stop discards the in-flight probe: once Stop() has returned, the
\* snapshot does not change any more.
StopFreezesSnapshot ==
    [][mon.stopped => status' = status]_vars

(***************************************************************************)
(* The Store's calls one by one, each leaving its arguments and result in   *)
(* out: Enqueue of any item, GetBatch with any limit, Requeue on its own.   *)
(***************************************************************************)
\* priorities callers pass: negative, zero, the ends of the range, above it
OpPriorities == {-1, 0, 1, 5, 6}

\* limits passed to GetBatch: negative, zero, and two that can cut a batch
OpLimits == {-1, 0, 1, 2}

\* the items callers enqueue: without an id, or for a task as update or delete
OpItems ==
    {NewItem(Empty, EntityTask, OperationUpdate, MarshalTask(Task(Empty, ZeroVal)), p) :
        p \in OpPriorities}
    \cup {NewItem(id, EntityTask, operation, MarshalTask(Task(id, ZeroVal)), p) :
            id \in TaskIds, operation \in {OperationUpdate, OperationDelete},
            p \in OpPriorities}

OpFrame == UNCHANGED <<dbNow, status, users, tasks, tick, resp, life, mon>>

\* Store.Enqueue(item). ok: the bolt transaction commits
OpEnqueue(item, ok) ==
    /\ hist.gids < MaxEnq
    /\ Commits(ok)
    /\ store' = IF ok THEN Enqueue(store, item, NewUUID(hist.uuids), now) ELSE store
    /\ hist' = [hist EXCEPT !.gids = @ + 1,
                            !.faults = @ + Fault(ok),
                            !.uuids = @ + (IF item.ID = Empty THEN 1 ELSE 0)]
    /\ out' = [op |-> "Enqueue", items |-> <<item>>, uuid |-> NewUUID(hist.uuids),
               err |-> IF ok THEN Nil ELSE ErrStore]
    /\ UNCHANGED now
    /\ OpFrame

\* Store.GetBatch(limit)
OpGetBatch(limit) ==
    /\ out' = [op |-> "GetBatch", items |-> GetBatch(store, limit), limit |-> limit]
    /\ out' # out
    /\ UNCHANGED <<store, now, hist>>
    /\ OpFrame

\* Store.Requeue(item) for item i of the last batch, with no Remove before it
OpRequeue(i) ==
    /\ out.op = "GetBatch"
    /\ i \in 1..Len(out.items)
    /\ store' = Requeue(store, out.items[i], NewUUID(hist.uuids), now)
    /\ out' = [op |-> "Requeue", items |-> <<out.items[i]>>, uuid |-> NewUUID(hist.uuids)]
    /\ UNCHANGED <<now, hist>>
    /\ OpFrame

NextOps ==
    \/ StoreTick
    \/ \E item \in OpItems, ok \in BOOLEAN : OpEnqueue(item, ok)
    \/ \E limit \in OpLimits : OpGetBatch(limit)
    \/ \E i \in 1..MaxEnq : OpRequeue(i)

SpecOps == InitStore /\ [][NextOps]_vars

\* this step is a call of Enqueue / of Requeue
IsOpEnqueue == out'.op = "Enqueue" /\ hist'.gids # hist.gids
IsOpRequeue == out.op = "GetBatch" /\ out'.op = "Requeue"

\* the keys a batch carries as handles
Handles(items) == {items[i].bucketKey : i \in 1..Len(items)}

\* record a stands before record b in the order (priority, enqueued_at, id)
TupleLess(a, b) ==
    \/ a.Priority < b.Priority
    \/ a.Priority = b.Priority /\ a.Timestamp < b.Timestamp
    \/ a.Priority = b.Priority /\ a.Timestamp = b.Timestamp /\ BytesLess(a.ID, b.ID)

\* C26 - Requeue equals remove-then-enqueue: Requeue(record) leaves the bucket
\* as Remove(record) followed by Enqueue of the record with its timestamp
\* refreshed leaves it, with no entry under the record's old key unless the
\* new key is the same.
RequeueIsRemoveEnqueue ==
    [][IsOpRequeue =>
          LET item == out'.items[1]
              fresh == [item EXCEPT !.bucketKey = Empty, !.Timestamp = now]
          IN /\ store' = Enqueue(Remove(store, item), fresh, out'.uuid, now)
             /\ \A e \in store' :
                   e.k = item.bucketKey => e.v.Timestamp = now]_vars

\* C27 - GetBatch is a bounded, read-only prefix: GetBatch(limit) returns the
\* first min(limit, n) records of the order (priority, enqueued_at, id), with
\* limit <= 0 read as 50, each with the key it is stored under, and leaves the
\* bucket and its size as they were.
GetBatchPrefix ==
    [][(out'.op = "GetBatch" /\ out' # out) =>
          LET items == out'.items
              limit == IF out'.limit <= 0 THEN 50 ELSE out'.limit
          IN /\ Len(items) = Min(limit, Size(store))
             /\ \A i, j \in 1..Len(items) : i < j => TupleLess(items[i], items[j])
             /\ \A i \in 1..Len(items) :
                   \E e \in store : /\ e.k = items[i].bucketKey
                                    /\ e.v = Marshal(items[i])
             /\ \A e \in store :
                   e.k \notin Handles(items) =>
                       \A i \in 1..Len(items) : TupleLess(items[i], e.v)
             /\ store' = store
             /\ Size(store') = Size(store)]_vars

\* C27 witness: a batch cut to its limit, one record of two
BatchCutToLimit ==
    /\ out.op = "GetBatch"
    /\ out.limit = 1
    /\ Len(out.items) = 1
    /\ Size(store) = 2

\* C28 - Atomic enqueue: Enqueue returns success and the bucket holds exactly
\* one more entry, the normalized record, with every other entry as it was,
\* or it returns an error and the bucket is as it was.
AtomicEnqueue ==
    [][IsOpEnqueue =>
          IF out'.err = Nil
          THEN /\ store \subseteq store'
               /\ Size(store') = Size(store) + 1
               /\ \A e \in store' \ store :
                     /\ e.v.Entity = out'.items[1].Entity
                     /\ e.v.Operation = out'.items[1].Operation
                     /\ e.v.Data = out'.items[1].Data
                     /\ e.k \in Handles(GetBatch(store', 0))
          ELSE store' = store]_vars

\* the priority a record is stored with when the caller asked for p
StoredPriority(p) == IF p >= 1 /\ p <= 5 THEN p ELSE 3

\* C29 - Priority range: every entry of the bucket has a priority in 1..5, and
\* the entry an enqueue writes has the priority asked for when that is in
\* 1..5 and priority 3 otherwise.
PriorityRange ==
    [][IsOpEnqueue =>
          /\ \A e \in store' : e.v.Priority >= 1 /\ e.v.Priority <= 5
          /\ \A e \in store' \ store :
                e.v.Priority = StoredPriority(out'.items[1].Priority)]_vars

\* C29 witness: an enqueue with priority 6 has stored its record with priority 3
AboveRangeStoredAsDefault ==
    /\ out.op = "Enqueue"
    /\ out.err = Nil
    /\ out.items[1].Priority = 6
    /\ \E e \in store : e.v.ID = out.uuid /\ e.v.Priority = 3

(***************************************************************************)
(* Handlers enqueueing while drain ticks run: several records, the clock    *)
(* advancing on its own.                                                    *)
(***************************************************************************)
\* the records handlers buffer here: two operations on one task
ConcurrentItems ==
    {TaskItem(operation, Task(id, val)) :
        operation \in {OperationUpdate, OperationDelete}, id \in TaskIds, val \in ReqVals}

\* records accepted in one run
MaxConcurrent == MaxReq + 1

InitConcurrent ==
    /\ store = {}
    /\ now = T0
    /\ dbNow = T0
    /\ life = NoLife
    /\ mon = NoMon
    /\ out = NoOut
    /\ status = ZeroStatus
    /\ users = EmptyTable
    /\ tasks = EmptyTable
    /\ tick = [t \in Slots |-> IdleFrame]
    /\ resp = NoResp
    /\ hist = [gids |-> 0, uuids |-> 0, fires |-> 0, reqs |-> 0, faults |-> 0,
               accepted |-> {}, applied |-> {}, dropped |-> {}, skipped |-> {},
               applies |-> [g \in 1..MaxConcurrent |-> 0],
               oks |-> [g \in 1..MaxConcurrent |-> 0], batched |-> {}]

\* BufferOperation in a handler's goroutine, where it reaches store.Enqueue
\* (monitor offline, or the immediate apply failed with the row store down):
\* the item is normalized with the clock as it stands and written. ok: the
\* bolt transaction commits
HandlerEnqueue(item, ok) ==
    /\ hist.reqs < MaxConcurrent
    /\ Commits(ok)
    /\ LET g == hist.gids + 1
       IN /\ store' = IF ok THEN Enqueue(store, [item EXCEPT !.gid = g],
                                         NewUUID(hist.uuids), now)
                      ELSE store
          /\ hist' = [hist EXCEPT !.reqs = @ + 1, !.faults = @ + Fault(ok),
                         !.uuids = @ + (IF item.ID = Empty THEN 1 ELSE 0),
                         !.gids = IF ok THEN g ELSE @,
                         !.accepted = IF ok THEN @ \cup {g} ELSE @]
          /\ resp' = [NoResp EXCEPT !.op = "BufferOperation", !.ok = ok,
                                    !.gid = IF ok THEN g ELSE 0,
                                    !.err = IF ok THEN Nil ELSE ErrStore,
                                    !.cause = ErrUnavailable]
    /\ UNCHANGED <<now, dbNow, life, mon, out, status, users, tasks, tick>>

NextConcurrent ==
    \/ StoreTick
    \/ \E pg \in BOOLEAN : Refresh(pg, pg)
    \/ \E t \in Slots : CronFire(t)
    \/ \E t \in Slots, up \in BOOLEAN, ok \in BOOLEAN : DrainItem(t, up, ok)
    \/ \E t \in Slots, ok \in BOOLEAN : DrainRequeue(t, ok)
    \/ \E item \in ConcurrentItems, ok \in BOOLEAN : HandlerEnqueue(item, ok)

SpecConcurrent == InitConcurrent /\ [][NextConcurrent]_vars

\* C25 - Visibility under concurrency: a record whose enqueue returned success
\* and that no GetBatch has returned yet is in the bucket, whatever handlers
\* and drain ticks did in between.
VisibleUntilBatched ==
    \A g \in hist.accepted \ hist.batched : Copies(store, g) # {}

\* C33 - A drain tick works on one snapshot and terminates: a tick starts
\* with the one batch GetBatch returns, of at most batch_size records, and
\* never changes it; every apply of the tick is on the record at its position
\* in that batch, and every step of the tick moves it forward (to the requeue
\* of the same record, to the next record, or to its end), so each record of
\* the batch is applied at most once and the tick ends after at most
\* batch_size applies, whatever was enqueued or requeued meanwhile.
TickOnOneSnapshot ==
    [][\A t \in Slots :
          /\ (tick[t].pc = "idle" /\ tick'[t].pc # "idle") =>
                /\ tick'[t].items = GetBatch(store, BatchSize)
                /\ Len(tick'[t].items) <= BatchSize
                /\ tick'[t].i = 1 /\ tick'[t].pc = "loop"
          /\ (tick[t].pc # "idle" /\ tick'[t] # tick[t]) =>
                /\ tick'[t].pc # "idle" => tick'[t].items = tick[t].items
                /\ hist'.applies # hist.applies =>
                      /\ tick[t].pc = "loop"
                      /\ hist'.applies =
                            [hist.applies EXCEPT ![tick[t].items[tick[t].i].gid] = @ + 1]
                /\ \/ tick'[t].pc = "idle"
                   \/ tick'[t].i > tick[t].i /\ tick'[t].i <= Len(tick[t].items)
                   \/ /\ tick'[t].i = tick[t].i
                      /\ tick[t].pc = "loop" /\ tick'[t].pc = "requeue"]_vars

\* C33 witness: a tick with a batch of two has failed on its first record and
\* requeued it; the new entry is in the buffer while the tick stands before
\* its second record
RequeuedBehindTheTick ==
    \E t \in Slots :
        /\ tick[t].pc = "loop"
        /\ Len(tick[t].items) = 2
        /\ tick[t].i = 2
        /\ \E e \in Copies(store, tick[t].items[1].gid) :
              /\ e.v.Retries = tick[t].items[1].Retries + 1
              /\ e.k # tick[t].items[1].bucketKey

(***************************************************************************)
(* Shutdown while the cron job is at work: the hooks of main against a      *)
(* Drain that is in its loop.                                               *)
(***************************************************************************)
\* cron.Stop() has been called: the schedule starts no further job
CronStopped == HookProcessor \in Range(life.calls)

\* hook h has been called and has returned
Returned(h) == h \in Range(life.calls) /\ life.cur # h

\* bufferStore.Close() has returned: every later transaction fails with
\* ErrDatabaseNotOpen
StoreClosed == Returned(HookBuffer)

\* pool.Close() has returned: every later query fails
PoolClosed == Returned(HookPostgres)

\* main has returned or the process has exited: no goroutine runs any more
Exited == life.pc = "exited"

\* main as it waits on appCtx.Done(): every startup step done, six hooks registered
WaitingLife ==
    [InitLife EXCEPT
        !.pc = "wait",
        !.hooks = <<HookPostgres, HookRedis, HookBuffer, HookMonitor,
                    HookProcessor, HookServer>>,
        !.done = {StepMigrations, HookPostgres, HookRedis, HookBuffer},
        !.started = {HookMonitor, HookProcessor, HookServer}]

\* the records in the buffer when the signal arrives: an update of task t1
ShutdownItems ==
    {[TaskItem(OperationUpdate, Task(id, "a")) EXCEPT !.gid = 1] : id \in TaskIds}

InitShutdown ==
    /\ store \in {Enqueue({}, item, NewUUID(0), T0 - 1) : item \in ShutdownItems}
    /\ now = T0
    /\ dbNow = T0
    /\ out = NoOut
    /\ status = [PostgreSQL |-> TRUE, Redis |-> TRUE, Buffer |-> TRUE, BufferSize |-> 1]
    /\ users = EmptyTable
    /\ tasks \in OldTables(TaskIds)
    /\ tick = [t \in Slots |-> IdleFrame]
    /\ resp = NoResp
    /\ hist = [gids |-> 1, uuids |-> 0, fires |-> 0, reqs |-> 0, faults |-> 0,
               accepted |-> {1}, applied |-> {}, dropped |-> {}, skipped |-> {},
               applies |-> [g \in Gids |-> 0],
               oks |-> [g \in Gids |-> 0], batched |-> {}]
    /\ life = WaitingLife
    /\ mon = NoMon

\* the schedule fires while the cron is running
ShutdownFire(t) == ~Exited /\ ~CronStopped /\ CronFire(t)

\* Drain's loop body while the store is open
ShutdownItem(t, up, ok) ==
    /\ ~Exited
    /\ ~StoreClosed
    /\ PoolClosed => ~up
    /\ DrainItem(t, up, ok)

\* Drain's Requeue while the store is open
ShutdownRequeue(t, ok) == ~Exited /\ ~StoreClosed /\ DrainRequeue(t, ok)

\* Drain's loop body after Close: Remove returns ErrDatabaseNotOpen, which
\* Drain logs or drops like any other error of Remove
ClosedItem(t, up) ==
    /\ ~Exited
    /\ StoreClosed
    /\ PoolClosed => ~up
    /\ tick[t].pc = "loop"
    /\ LET f == tick[t]
           item == f.items[f.i]
           r == processItem(item, users, tasks, NewUUID(hist.uuids), up, dbNow)
           failed == [item EXCEPT !.Retries = item.Retries + 1]
       IN /\ users' = r.users
          /\ tasks' = r.tasks
          /\ hist' = [hist EXCEPT
                        !.uuids = @ + (IF TakesUUID(item) THEN 1 ELSE 0),
                        !.applies = [@ EXCEPT ![item.gid] = @ + 1],
                        !.oks = [@ EXCEPT ![item.gid] = @ + (IF r.err = Nil THEN 1 ELSE 0)]]
          /\ tick' = [tick EXCEPT ![t] =
                        IF r.err = Nil \/ failed.Retries >= MaxRetries
                        THEN NextRecord(f)
                        ELSE [f EXCEPT !.pc = "requeue", !.cur = failed]]
    /\ UNCHANGED <<store, now, dbNow, life, mon, out, status, resp>>

\* Drain's Requeue after Close: time.Now() is read, Enqueue returns
\* ErrDatabaseNotOpen, Drain logs it and goes on
ClosedRequeue(t) ==
    /\ ~Exited
    /\ StoreClosed
    /\ tick[t].pc = "requeue"
    /\ tick' = [tick EXCEPT ![t] = NextRecord(tick[t])]
    /\ now' = now + 1
    /\ UNCHANGED <<store, dbNow, life, mon, out, status, users, tasks, resp, hist>>

NextShutdown ==
    \/ Signal
    \/ ShutdownCall
    \/ DeadlinePasses
    \/ HookStart
    \/ \E failed \in BOOLEAN : HookReturn(failed)
    \/ ShutdownReturn
    \/ \E t \in Slots : ShutdownFire(t)
    \/ \E t \in Slots, up \in BOOLEAN, ok \in BOOLEAN : ShutdownItem(t, up, ok)
    \/ \E t \in Slots, ok \in BOOLEAN : ShutdownRequeue(t, ok)
    \/ \E t \in Slots, up \in BOOLEAN : ClosedItem(t, up)
    \/ \E t \in Slots : ClosedRequeue(t)

SpecShutdown == InitShutdown /\ [][NextShutdown]_vars

\* C31 - The Buffer Store is closed only when no drain tick is in flight:
\* once BufferProcessor.Stop has returned no Drain is executing, deadline
\* passed or not, and the Close hook never runs while a tick stands between
\* the Remove of a failed record and its Requeue.
StopWaitsForDrain ==
    /\ Returned(HookProcessor) => InFlight = {}
    /\ life.cur = HookBuffer => \A t \in Slots : tick[t].pc # "requeue"


(***************************************************************************)
(* The context of a tick: the cron job's context.WithTimeout(cfg.Interval)  *)
(* and what Drain does once it is done.                                     *)
(***************************************************************************)
\* the cron slots whose job context is done (deadline passed)
NoneDone == [pc |-> "serving", ctxDone |-> {}]

\* the records in the buffer when the tick fires: a profile update and a task update
CancelItems ==
    <<[ProfileItem(OperationUpdate, User(<<117, 49>>, "a")) EXCEPT !.gid = 1],
      [TaskItem(OperationUpdate, Task(<<116, 49>>, "a")) EXCEPT !.gid = 2]>>

InitCancel ==
    /\ store = Enqueue(Enqueue({}, CancelItems[1], NewUUID(0), T0 - 1),
                       CancelItems[2], NewUUID(1), T0 - 1)
    /\ now = T0
    /\ dbNow = T0
    /\ out = NoOut
    /\ status = [PostgreSQL |-> TRUE, Redis |-> TRUE, Buffer |-> TRUE, BufferSize |-> 2]
    /\ users = EmptyTable
    /\ tasks \in OldTables(TaskIds)
    /\ tick = [t \in Slots |-> IdleFrame]
    /\ resp = NoResp
    /\ hist = [gids |-> 2, uuids |-> 1, fires |-> 0, reqs |-> 0, faults |-> 0,
               accepted |-> {1, 2}, applied |-> {}, dropped |-> {}, skipped |-> {},
               applies |-> [g \in 1..2 |-> 0],
               oks |-> [g \in 1..2 |-> 0], batched |-> {}]
    /\ life = NoneDone
    /\ mon = NoMon

\* the schedule fires in a slot whose last job has returned
CancelFire(t) == t \notin life.ctxDone /\ CronFire(t)

\* the deadline of a running job's context passes
TickDeadline(t) ==
    /\ tick[t].pc # "idle"
    /\ t \notin life.ctxDone
    /\ life' = [life EXCEPT !.ctxDone = @ \cup {t}]
    /\ UNCHANGED <<store, now, dbNow, out, status, users, tasks, tick, resp, hist, mon>>

\* the job function returns after Drain: defer cancel()
JobReturn(t) ==
    /\ tick[t].pc = "idle"
    /\ t \in life.ctxDone
    /\ life' = [life EXCEPT !.ctxDone = @ \ {t}]
    /\ UNCHANGED <<store, now, dbNow, out, status, users, tasks, tick, resp, hist, mon>>

\* Drain's loop body: range over items, with no look at ctx; a repository
\* call under a context that is done returns the context's error
CancelItem(t, up, ok) ==
    /\ t \in life.ctxDone => ~up
    /\ DrainItem(t, up, ok)

NextCancel ==
    \/ \E t \in Slots : CancelFire(t)
    \/ \E t \in Slots : TickDeadline(t)
    \/ \E t \in Slots : JobReturn(t)
    \/ \E t \in Slots, up \in BOOLEAN, ok \in BOOLEAN : CancelItem(t, up, ok)
    \/ \E t \in Slots, ok \in BOOLEAN : DrainRequeue(t, ok)

SpecCancel == InitCancel /\ [][NextCancel]_vars

\* C32 - Cancellation between records: a tick whose context is done and that
\* stands before a record of its batch takes no step on it: nothing is
\* applied to the tables, nothing is removed from or requeued into the
\* buffer, and no record goes on to a requeue with its retries counted up.
CancellationBetweenRecords ==
    [][\A t \in Slots :
          (t \in life.ctxDone /\ tick[t].pc = "loop" /\ tick'[t] # tick[t]) =>
              /\ users' = users /\ tasks' = tasks
              /\ store' = store
              /\ tick'[t].pc # "requeue"]_vars

(***************************************************************************)
(* The service from the construction of the Monitor on: its goroutine with  *)
(* refresh in two halves, next to the requests and the cron job.            *)
(***************************************************************************)
InitBoot ==
    /\ store = {}
    /\ now = T0
    /\ dbNow = T0
    /\ out = NoOut
    /\ status = ZeroStatus
    /\ users \in OldTables(UserIds)
    /\ tasks \in OldTables(TaskIds)
    /\ tick = [t \in Slots |-> IdleFrame]
    /\ resp = NoResp
    /\ hist = [gids |-> 0, uuids |-> 0, fires |-> 0, reqs |-> 0, faults |-> 0,
               accepted |-> {}, applied |-> {}, dropped |-> {}, skipped |-> {},
               applies |-> [g \in Gids |-> 0],
               oks |-> [g \in Gids |-> 0], batched |-> {}]
    /\ life = NoLife
    /\ mon = InitMon

\* the Monitor's first probe round; the later ones are left out here
NextBoot ==
    \/ MonStart
    \/ \E pg \in BOOLEAN, redis \in BOOLEAN : Probe(pg, redis)
    \/ ProbeWrite
    \/ \E t \in Slots : CronFire(t)
    \/ \E t \in Slots, up \in BOOLEAN, ok \in BOOLEAN : DrainItem(t, up, ok)
    \/ \E t \in Slots, ok \in BOOLEAN : DrainRequeue(t, ok)
    \/ \E id \in UserIds, val \in ReqVals, up1 \in BOOLEAN, up2 \in BOOLEAN, ok \in BOOLEAN :
          UpdateProfile(id, val, up1, up2, ok)
    \/ \E id \in TaskIds, val \in ReqVals, up1 \in BOOLEAN, up2 \in BOOLEAN, ok \in BOOLEAN :
          UpdateTask(id, val, up1, up2, ok)
    \/ \E item \in RawItems, up \in BOOLEAN, ok \in BOOLEAN : BufferOperationCall(item, up, ok)

SpecBoot == InitBoot /\ [][NextBoot]_vars

\* C34 - Initial state is offline: until the first probe result has been
\* stored the snapshot reports both primary stores down and buffer size 0 and
\* IsOnline() is false, no tick is at work, a firing of the cron job leaves
\* ticks and buffer as they are, and BufferOperation makes no direct apply and
\* enqueues the record (one new entry when the write commits).
InitiallyOffline ==
    /\ [](~mon.written =>
            /\ ~IsOnline(status)
            /\ ~GetStatus(status).PostgreSQL
            /\ ~GetStatus(status).Redis
            /\ GetStatus(status).BufferSize = 0
            /\ InFlight = {})
    /\ [][~mon.written =>
            /\ IsCronFire => tick' = tick /\ store' = store
            /\ IsReturn =>
                  /\ ~resp'.tried
                  /\ ~resp'.applied => users' = users /\ tasks' = tasks
                  /\ (/\ resp'.op = "BufferOperation" \/ resp'.cause = ErrUnavailable
                      /\ hist'.faults = hist.faults) =>
                        /\ resp'.ok
                        /\ store \subseteq store'
                        /\ Cardinality(store' \ store) = 1]_vars

\* C34 witness: the first probe has found both stores up but is not stored
\* yet; meanwhile a request was buffered without a direct apply and the cron
\* job fired and left the record where it was
BufferedBeforeFirstProbe ==
    /\ ~mon.written
    /\ mon.pc = "write"
    /\ mon.probe.PostgreSQL /\ mon.probe.Redis
    /\ resp.ok /\ ~resp.tried /\ ~resp.applied
    /\ Size(store) = 1
    /\ hist.skipped # {}

(***************************************************************************)
(* The Monitor's snapshot under its RWMutex: refresh assigns the struct     *)
(* field by field with the lock held, GetStatus copies it field by field    *)
(* with the read lock held.                                                 *)
(***************************************************************************)
\* the fields of Status, in the order of the struct
StatusFields == <<"PostgreSQL", "Redis", "Buffer", "BufferSize">>

\* m.mu: the writer holds it or not, and the number of readers holding it;
\* wpos: fields of m.status assigned so far; rounds: the Status values the
\* probe rounds have produced; n: their number
InitLocked ==
    [pc |-> "new", stopped |-> FALSE, pending |-> FALSE, probe |-> ZeroStatus,
     written |-> FALSE, writer |-> FALSE, readers |-> 0, wpos |-> 0,
     rounds |-> {}, n |-> 0]

\* a caller of GetStatus: not in the call, copying with pos fields done, or returned
NoRead == [op |-> "GetStatus", pc |-> "idle", pos |-> 0, val |-> ZeroStatus]

InitSnapshot ==
    /\ store = {}
    /\ now = T0
    /\ dbNow = T0
    /\ out = NoRead
    /\ status = ZeroStatus
    /\ users = EmptyTable
    /\ tasks = EmptyTable
    /\ tick = [t \in Slots |-> IdleFrame]
    /\ resp = NoResp
    /\ hist = [gids |-> 0, uuids |-> 0, fires |-> 0, reqs |-> 0, faults |-> 0,
               accepted |-> {}, applied |-> {}, dropped |-> {}, skipped |-> {},
               applies |-> [g \in Gids |-> 0],
               oks |-> [g \in Gids |-> 0], batched |-> {}]
    /\ life = NoLife
    /\ mon = InitLocked

SnapFrame == UNCHANGED <<store, now, dbNow, users, tasks, tick, resp, hist, life>>

\* a plausible slip: GetStatus reads without taking the read lock
RLockFree(m) == TRUE

\* m.mu.RLock() can be taken: no writer holds the mutex
RLock(m) == ~m.writer

\* m.mu.Lock() can be taken: nobody holds the mutex
Lock(m) == ~m.writer /\ m.readers = 0

\* refresh, first half: the checks fill the local Status
RefreshChecks(pg, redis) ==
    /\ mon.pc = "refresh"
    /\ LET st == [PostgreSQL |-> pg, Redis |-> redis,
                  Buffer |-> TRUE, BufferSize |-> Size(store)]
       IN mon' = [mon EXCEPT !.pc = "lock", !.probe = st,
                             !.rounds = @ \cup {st}, !.n = @ + 1]
    /\ UNCHANGED <<status, out>>
    /\ SnapFrame

\* refresh: m.mu.Lock()
RefreshLock ==
    /\ mon.pc = "lock"
    /\ Lock(mon)
    /\ mon' = [mon EXCEPT !.pc = "write", !.writer = TRUE, !.wpos = 0]
    /\ UNCHANGED <<status, out>>
    /\ SnapFrame

\* refresh: m.status = status, one field of the struct copy
RefreshAssign ==
    /\ mon.pc = "write"
    /\ mon.wpos < Len(StatusFields)
    /\ LET fld == StatusFields[mon.wpos + 1]
       IN status' = [status EXCEPT ![fld] = mon.probe[fld]]
    /\ mon' = [mon EXCEPT !.wpos = @ + 1]
    /\ UNCHANGED out
    /\ SnapFrame

\* refresh: m.mu.Unlock(), and back in loop's select
RefreshUnlock ==
    /\ mon.pc = "write"
    /\ mon.wpos = Len(StatusFields)
    /\ mon' = [mon EXCEPT !.pc = "select", !.writer = FALSE, !.written = TRUE]
    /\ UNCHANGED <<status, out>>
    /\ SnapFrame

\* loop: the ticker's case of the select, the next refresh
LoopTick ==
    /\ mon.pc = "select"
    /\ mon.n < MaxRounds
    /\ mon' = [mon EXCEPT !.pc = "refresh"]
    /\ UNCHANGED <<status, out>>
    /\ SnapFrame

\* GetStatus: m.mu.RLock()
GetStatusRLock ==
    /\ out.pc \in {"idle", "returned"}
    /\ RLock(mon)
    /\ out' = [out EXCEPT !.pc = "copy", !.pos = 0, !.val = ZeroStatus]
    /\ mon' = [mon EXCEPT !.readers = @ + 1]
    /\ UNCHANGED status
    /\ SnapFrame

\* GetStatus: return m.status, one field of the struct copy
GetStatusCopy ==
    /\ out.pc = "copy"
    /\ out.pos < Len(StatusFields)
    /\ LET fld == StatusFields[out.pos + 1]
       IN out' = [out EXCEPT !.pos = @ + 1, !.val = [@ EXCEPT ![fld] = status[fld]]]
    /\ UNCHANGED <<status, mon>>
    /\ SnapFrame

\* GetStatus: the deferred m.mu.RUnlock(), and the copy is returned
GetStatusReturn ==
    /\ out.pc = "copy"
    /\ out.pos = Len(StatusFields)
    /\ out' = [out EXCEPT !.pc = "returned"]
    /\ mon' = [mon EXCEPT !.readers = @ - 1]
    /\ UNCHANGED status
    /\ SnapFrame

NextSnapshot ==
    \/ MonStart
    \/ \E pg \in BOOLEAN, redis \in BOOLEAN : RefreshChecks(pg, redis)
    \/ RefreshLock
    \/ RefreshAssign
    \/ RefreshUnlock
    \/ LoopTick
    \/ GetStatusRLock
    \/ GetStatusCopy
    \/ GetStatusReturn

SpecSnapshot == InitSnapshot /\ [][NextSnapshot]_vars

\* C35 - Snapshots are replaced as a whole: a value GetStatus() returns is the
\* initial snapshot or the Status one probe round produced, never fields of
\* two rounds.
WholeSnapshots ==
    out.pc = "returned" => out.val \in {ZeroStatus} \cup mon.rounds

\* C35 witness: GetStatus was called while refresh was waiting for the lock
\* to store a second, different round; it returned the first round whole
ReadWhileRefreshWaits ==
    /\ out.pc = "returned"
    /\ mon.pc = "lock"
    /\ mon.n = 2
    /\ mon.probe # out.val
    /\ out.val # ZeroStatus
    /\ out.val \in mon.rounds

(***************************************************************************)
(* The Store with what an earlier run left in the bucket, an entry that     *)
(* does not decode among it: GetBatch, Remove with and without handle,      *)
(* Remove and Requeue as Drain calls them, and Cleanup.                     *)
(***************************************************************************)
\* the key of the entry whose value is corrupted: written by an earlier run,
\* of the first priority class, so that the cursor meets it first
CorruptKey ==
    buildKey([Priority |-> 1, Timestamp |-> T0 - 1, ID |-> <<116, 49>>])

\* the items callers enqueue: an update and a delete of task t1
KeptItems ==
    {NewItem(id, EntityTask, operation, MarshalTask(Task(id, ZeroVal)), 4) :
        id \in TaskIds, operation \in {OperationUpdate, OperationDelete}}

\* the bounds of Cleanup: at and after the timestamps this run writes
CleanupTimes == T0..(MaxTime + 1)

\* limits passed to GetBatch: the default, and one that cuts a batch
KeptLimits == {0, 1}

\* the bucket as the earlier run left it: the corrupted entry, alone or with
\* a record enqueued before this run
InitKept ==
    /\ store \in {{[k |-> CorruptKey, v |-> Corrupt]}}
                 \cup {Enqueue({[k |-> CorruptKey, v |-> Corrupt]}, item, NewUUID(9), T0 - 1) :
                          item \in KeptItems}
    /\ now = T0
    /\ dbNow = T0
    /\ life = NoLife
    /\ mon = NoMon
    /\ out = NoOut
    /\ status = ZeroStatus
    /\ users = EmptyTable
    /\ tasks = EmptyTable
    /\ tick = [t \in Slots |-> IdleFrame]
    /\ resp = NoResp
    /\ hist = [gids |-> 0, uuids |-> 0, fires |-> 0, reqs |-> 0, faults |-> 0,
               accepted |-> {}, applied |-> {}, dropped |-> {}, skipped |-> {},
               applies |-> [g \in Gids |-> 0],
               oks |-> [g \in Gids |-> 0], batched |-> {}]

\* Store.Remove(item) for item i of the last batch, which the caller keeps;
\* byID: the caller's copy carries no handle. was: Size before the call
OpRemove(i, byID) ==
    /\ out.op \in {"GetBatch", "Remove"}
    /\ i \in 1..Len(out.items)
    /\ LET item == IF byID THEN [out.items[i] EXCEPT !.bucketKey = Empty]
                   ELSE out.items[i]
       IN /\ store' = Remove(store, item)
          /\ out' = [op |-> "Remove", items |-> out.items, arg |-> item,
                     was |-> Size(store), err |-> Nil]
    /\ UNCHANGED <<now, hist>>
    /\ OpFrame

\* Store.Cleanup(olderThan)
OpCleanup(olderThan) ==
    /\ store' = Cleanup(store, olderThan)
    /\ out' = [op |-> "Cleanup", items |-> <<>>, olderThan |-> olderThan,
               was |-> Size(store), err |-> Nil]
    /\ UNCHANGED <<now, hist>>
    /\ OpFrame

NextKept ==
    \/ StoreTick
    \/ \E item \in KeptItems, ok \in BOOLEAN : OpEnqueue(item, ok)
    \/ \E limit \in KeptLimits : OpGetBatch(limit)
    \/ \E i \in 1..BatchSize, byID \in BOOLEAN : OpRemove(i, byID)
    \/ \E i \in 1..BatchSize : StoreRequeue(i)
    \/ \E olderThan \in CleanupTimes : OpCleanup(olderThan)

SpecKept == InitKept /\ [][NextKept]_vars

\* this step is a call of GetBatch / Remove / Cleanup
IsOpGetBatch == out'.op = "GetBatch" /\ out' # out
IsOpRemove == out'.op = "Remove" /\ now' = now /\ hist' = hist
IsOpCleanup == out'.op = "Cleanup" /\ now' = now /\ hist' = hist

\* the entries of a bucket that decode
Valid(s) == {e \in s : Decodes(e.v)}

\* C36 - Corrupted entries are skipped, not removed: no step of GetBatch, of
\* Remove and Requeue as Drain calls them, or of Cleanup takes an entry that
\* does not decode out of the bucket, where Size goes on counting it; a batch
\* holds entries that decode only, and as many of them as the limit and the
\* bucket allow, the corrupted ones not counted.
CorruptSkippedNotRemoved ==
    [][/\ \A e \in store : ~Decodes(e.v) => e \in store'
       /\ Size(store') >= Cardinality(store' \ Valid(store'))
       /\ IsOpGetBatch =>
             LET limit == IF out'.limit <= 0 THEN DefaultLimit ELSE out'.limit
             IN /\ store' = store
                /\ \A i \in 1..Len(out'.items) :
                      \E e \in Valid(store) : e.k = out'.items[i].bucketKey
                /\ Len(out'.items) = Min(limit, Cardinality(Valid(store)))]_vars

\* C36 witness: GetBatch(1) has passed over the corrupted entry, which stands
\* first in the bucket, and returned the record behind it
PassedOverCorrupt ==
    /\ out.op = "GetBatch"
    /\ out.limit = 1
    /\ Len(out.items) = 1
    /\ Size(store) = 2
    /\ \E e \in store : ~Decodes(e.v) /\ BytesLess(e.k, out.items[1].bucketKey)

\* C37 - Remove deletes exactly one entry: with a handle the bucket loses the
\* entry under that key and nothing else; without one it loses one entry of
\* the record's id and nothing else; when no such entry is there it is left
\* as it was, and the call succeeds.
RemoveExactlyOne ==
    [][IsOpRemove =>
          LET item == out'.arg
              same == {e \in Valid(store) : e.v.ID = item.ID}
          IN /\ out'.err = Nil
             /\ IF Len(item.bucketKey) > 0
                THEN store' = {e \in store : e.k # item.bucketKey}
                ELSE /\ store' \subseteq store
                     /\ store \ store' \subseteq same
                     /\ Cardinality(store \ store') = IF same = {} THEN 0 ELSE 1]_vars

\* C37 witness: Remove without handle has deleted one of two entries of the
\* same id; the other is still in the bucket
RemovedOneOfTwo ==
    /\ out.op = "Remove"
    /\ out.arg.bucketKey = Empty
    /\ Size(store) = out.was - 1
    /\ \E e \in Valid(store) : e.v.ID = out.arg.ID

\* C38 - Cleanup removes exactly the stale records: after Cleanup(olderThan)
\* no record of the bucket has a timestamp before olderThan, and every record
\* with a timestamp at or after it is in the bucket as it was; nothing is added.
CleanupExact ==
    [][IsOpCleanup =>
          /\ \A e \in Valid(store') : e.v.Timestamp >= out'.olderThan
          /\ \A e \in Valid(store) : e.v.Timestamp >= out'.olderThan => e \in store'
          /\ store' \subseteq store]_vars

\* C38 witness: Cleanup has removed a record and left one whose timestamp is
\* the given bound
CleanedUpToBound ==
    /\ out.op = "Cleanup"
    /\ Size(store) < out.was
    /\ \E e \in Valid(store) : e.v.Timestamp = out.olderThan

=============================================================================
